---- MODULE Spec2Model ----
(***************************************************************************)
(* The S3 event-stream framing codec (Message::serialize), the event and   *)
(* error mapping onto frames, and the streaming adapter (Wrapper) of       *)
(* crates/s3s/src/dto/event_stream.rs, with the CRC-32 of crypto.rs.       *)
(***************************************************************************)
EXTENDS Integers, Sequences, FiniteSets, TLC

VARIABLES
    upstream,     \* the items the inner stream yields, in order
    pos,          \* how many of them the inner stream has yielded
    out,          \* the chunks Wrapper::poll_next has returned, in order
    last_poll,    \* what the last call of Wrapper::poll_next returned
    msg,          \* a Message handed to the codec
    result,       \* what Message::serialize returned for msg
    parsed,       \* what parse_message returned for the serialized bytes
    hasher,       \* a ChecksumHasher, if one was constructed
    fed,          \* the bytes passed to update so far, in order
    checksum,     \* what ChecksumHasher::finalize returned
    single,       \* a hasher of one algorithm, if one was constructed
    digest,       \* what its finalize returned
    auth,         \* a SimpleAuth
    calls,        \* the key pairs given to from_single and register, in order
    auth_ret,     \* the last call on auth and what it returned
    region_s,     \* a string handed to Region::new or parsed as a Region
    region,       \* what Region::new returned for it
    region_ret,   \* the last call on the Region and what it returned
    creds,        \* two Credentials
    secret_ret    \* the last call made on both of them and what it returned

stream_vars == <<upstream, pos, out, last_poll>>
codec_vars == <<msg, result, parsed>>
hash_vars == <<hasher, fed, checksum, single, digest>>
auth_vars == <<auth, calls, auth_ret>>
region_vars == <<region_s, region, region_ret>>
secret_vars == <<creds, secret_ret>>

vars == <<stream_vars, codec_vars, hash_vars, auth_vars, region_vars, secret_vars>>

(***************************************************************************)
(* Bounds of the model.                                                    *)
(***************************************************************************)
MaxHeaders == 2
MaxUpstream == 2
MaxUpdates == 2
MaxRegister == 2
MaxRegionChars == 2

(***************************************************************************)
(* Machine integers.  usize, u32 and u64 values exceed the integers of the *)
(* model checker, so they are numbers in base 65536: four limbs, least     *)
(* significant first.  u8 and u16 values are plain integers.  usize is 64   *)
(* bits wide (a 64-bit build target).                                      *)
(***************************************************************************)
LIMB == 256 * 256
USIZE_BITS == 64
U8_MAX == 255
U16_MAX == 65535

W(n) == <<n % LIMB, n \div LIMB, 0, 0>>

\* the value of a machine integer below 2^31
WToInt(w) == w[1] + LIMB * w[2]

WFits(w, bits) ==
    CASE bits = 8 -> w[1] <= U8_MAX /\ w[2] = 0 /\ w[3] = 0 /\ w[4] = 0
      [] bits = 16 -> w[2] = 0 /\ w[3] = 0 /\ w[4] = 0
      [] bits = 32 -> w[3] = 0 /\ w[4] = 0
      [] bits = 64 -> TRUE

\* a + b as an unbounded number: the four low limbs and the carry out of them
WAdd(a, b) ==
    LET s1 == a[1] + b[1]
        s2 == a[2] + b[2] + s1 \div LIMB
        s3 == a[3] + b[3] + s2 \div LIMB
        s4 == a[4] + b[4] + s3 \div LIMB
    IN  [sum |-> <<s1 % LIMB, s2 % LIMB, s3 % LIMB, s4 % LIMB>>, carry |-> s4 \div LIMB]

None == [some |-> FALSE]
Some(v) == [some |-> TRUE, v |-> v]

\* usize::checked_add
checked_add(a, b) ==
    LET s == WAdd(a, b)
    IN  IF s.carry = 0 /\ WFits(s.sum, USIZE_BITS) THEN Some(s.sum) ELSE None

\* Option::and_then(|acc| acc.checked_add(b))
and_then_checked_add(opt, b) ==
    IF opt.some THEN checked_add(opt.v, b) ELSE None

\* u8::try_from(usize), u16::try_from(usize), u32::try_from(usize):
\* Err(TryFromIntError) is None
u8_try_from_truncating(n) == Some(n[1] % 256)
u8_try_from(n) == IF WFits(n, 8) THEN Some(WToInt(n)) ELSE None
\* an `as u16` cast in place of u16::try_from: the low 16 bits
u16_try_from_truncating(n) == Some(n[1])
u16_try_from(n) == IF WFits(n, 16) THEN Some(WToInt(n)) ELSE None
u32_try_from(n) == IF WFits(n, 32) THEN Some(n) ELSE None

(***************************************************************************)
(* Byte strings.  A Bytes value has a length (a usize) and its content:    *)
(* `pattern`, cycled up to that length.  Buffers (Vec<u8>) and serialized  *)
(* frames are plain sequences of bytes.                                    *)
(***************************************************************************)
B(s) == [pattern |-> s, len |-> W(Len(s))]
Filled(byte, w) == [pattern |-> <<byte>>, len |-> w]

\* Bytes::len
BytesLen(b) == b.len

\* Deref of Bytes to &[u8]
BytesData(b) ==
    [i \in 1..WToInt(b.len) |-> b.pattern[((i - 1) % Len(b.pattern)) + 1]]

(***************************************************************************)
(* bytes::BufMut on Vec<u8>: big-endian writers.                           *)
(***************************************************************************)
put_u8(buf, v) == Append(buf, v)
put_u16(buf, v) == buf \o <<v \div 256, v % 256>>
put_u32(buf, w) == buf \o <<w[2] \div 256, w[2] % 256, w[1] \div 256, w[1] % 256>>
put(buf, data) == buf \o data

\* u16::from_be_bytes, u32::from_be_bytes
u16_from_be_bytes(d) == d[1] * 256 + d[2]
u32_from_be_bytes(d) == <<d[3] * 256 + d[4], d[1] * 256 + d[2], 0, 0>>

(***************************************************************************)
(* CRC-32/ISO-HDLC (crypto.rs: Crc32 over crc_fast::Digest).  The register *)
(* is four bytes, most significant first.                                  *)
(***************************************************************************)
RECURSIVE BitXor(_, _)
BitXor(a, b) ==
    IF a = 0 THEN b
    ELSE IF b = 0 THEN a
    ELSE ((a + b) % 2) + 2 * BitXor(a \div 2, b \div 2)

Xor8 == [a \in 0..255 |-> [b \in 0..255 |-> BitXor(a, b)]]

\* the reflected polynomial 0xEDB88320 of CrcAlgorithm::Crc32IsoHdlc
CRC32_POLY == <<237, 184, 131, 32>>

CrcShiftRight1(c) ==
    <<c[1] \div 2,
      c[2] \div 2 + 128 * (c[1] % 2),
      c[3] \div 2 + 128 * (c[2] % 2),
      c[4] \div 2 + 128 * (c[3] % 2)>>

CrcXor(c, d) == <<Xor8[c[1]][d[1]], Xor8[c[2]][d[2]], Xor8[c[3]][d[3]], Xor8[c[4]][d[4]]>>

RECURSIVE CrcTableEntry(_, _)
CrcTableEntry(c, k) ==
    IF k = 0 THEN c
    ELSE CrcTableEntry(
            IF c[4] % 2 = 1 THEN CrcXor(CRC32_POLY, CrcShiftRight1(c))
            ELSE CrcShiftRight1(c),
            k - 1)

CrcTable == [n \in 0..255 |-> CrcTableEntry(<<0, 0, 0, n>>, 8)]

\* Crc32::new
Crc32_new == <<255, 255, 255, 255>>

\* one byte into the register
Crc32_step(h, byte) == CrcXor(CrcTable[Xor8[h[4]][byte]], <<0, h[1], h[2], h[3]>>)

\* the bytes data[lo..hi] into the register, in order; the register of the
\* first half is computed before the second half is read
RECURSIVE Crc32_update_range(_, _, _, _)
Crc32_update_range(h, data, lo, hi) ==
    IF lo > hi THEN h
    ELSE IF lo = hi THEN Crc32_step(h, data[lo])
    ELSE LET mid == (lo + hi) \div 2
             left == Crc32_update_range(h, data, lo, mid)
         IN  IF Len(left) = 4 THEN Crc32_update_range(left, data, mid + 1, hi) ELSE left

\* Crc32::update
Crc32_update(h, data) == Crc32_update_range(h, data, 1, Len(data))

\* crc_fast::Digest::finalize: the digest as a u64
Digest_finalize(h) ==
    LET x == CrcXor(h, <<255, 255, 255, 255>>)
    IN  <<x[3] * 256 + x[4], x[1] * 256 + x[2], 0, 0>>

\* truncating_cast::<u32>
truncating_cast_u32(w) == <<w[1], w[2], 0, 0>>

\* Crc32::checksum_u32
Crc32_checksum_u32(data) ==
    truncating_cast_u32(Digest_finalize(Crc32_update(Crc32_new, data)))

(***************************************************************************)
(* Message::serialize (event_stream.rs).                                   *)
(***************************************************************************)
Ok(v) == [ok |-> TRUE, val |-> v]
Err(e) == [ok |-> FALSE, err |-> e]

\* SerError
LengthOverflow == "LengthOverflow"
IntOverflow == "IntOverflow"

Header(name, value) == [name |-> name, value |-> value]
Message(headers, payload) == [headers |-> headers, payload |-> payload]

\* the closure of try_fold with the value length left out of the sum
headers_len_step_no_value(acc, h) ==
    and_then_checked_add(checked_add(acc, W(1 + 1 + 2)), BytesLen(h.name))

\* the closure of try_fold: one header added to the running sum
headers_len_step(acc, h) ==
    and_then_checked_add(
        and_then_checked_add(checked_add(acc, W(1 + 1 + 2)), BytesLen(h.name)),
        BytesLen(h.value))

\* self.headers.iter().try_fold(0, ...): None as soon as a sum overflows
RECURSIVE headers_try_fold(_, _, _)
headers_try_fold(hs, i, acc) ==
    IF i > Len(hs) THEN Some(acc)
    ELSE LET next == headers_len_step(acc, hs[i])
         IN  IF next.some THEN headers_try_fold(hs, i + 1, next.v) ELSE None

compute_headers_len(m) == headers_try_fold(m.headers, 1, W(0))

\* self.payload.as_ref().map_or(0, Bytes::len)
payload_len(m) == IF m.payload.some THEN BytesLen(m.payload.v) ELSE W(0)

\* compute_total_len without the 4 bytes of the message CRC
compute_total_len_short(hl, pl) ==
    and_then_checked_add(and_then_checked_add(hl, W(4 + 4 + 4)), pl)

compute_total_len(hl, pl) ==
    and_then_checked_add(and_then_checked_add(hl, W(4 + 4 + 4 + 4)), pl)

\* u32::try_from(len.ok_or(SerError::LengthOverflow)?)?
length_field(len) ==
    IF ~len.some THEN Err(LengthOverflow)
    ELSE LET c == u32_try_from(len.v)
         IN  IF c.some THEN Ok(c.v) ELSE Err(IntOverflow)

\* the prelude: total length, headers length and their CRC
write_prelude(total_byte_length, headers_byte_length) ==
    LET buf == put_u32(put_u32(<<>>, total_byte_length), headers_byte_length)
        prelude_crc == Crc32_checksum_u32(buf)
    IN  put_u32(buf, prelude_crc)

\* write_header without the value-type byte
write_header_no_type(buf, h) ==
    LET header_name_byte_length == u8_try_from(BytesLen(h.name))
        value_string_byte_length == u16_try_from(BytesLen(h.value))
    IN  IF ~header_name_byte_length.some THEN Err(IntOverflow)
        ELSE IF ~value_string_byte_length.some THEN Err(IntOverflow)
        ELSE Ok(put(put_u16(put(put_u8(buf, header_name_byte_length.v),
                                BytesData(h.name)),
                            value_string_byte_length.v),
                    BytesData(h.value)))

\* the body of the loop over the headers
write_header(buf, h) ==
    LET header_name_byte_length == u8_try_from(BytesLen(h.name))
        value_string_byte_length == u16_try_from(BytesLen(h.value))
    IN  IF ~header_name_byte_length.some THEN Err(IntOverflow)
        ELSE IF ~value_string_byte_length.some THEN Err(IntOverflow)
        ELSE Ok(put(put_u16(put_u8(put(put_u8(buf, header_name_byte_length.v),
                                       BytesData(h.name)),
                                   7),
                            value_string_byte_length.v),
                    BytesData(h.value)))

\* for h in &self.headers
RECURSIVE write_headers(_, _, _)
write_headers(buf, hs, i) ==
    IF i > Len(hs) THEN Ok(buf)
    ELSE LET r == write_header(buf, hs[i])
         IN  IF r.ok THEN write_headers(r.val, hs, i + 1) ELSE r

\* write_payload with a present payload announced by a marker byte
write_payload_with_marker(buf, m) ==
    IF m.payload.some THEN put(put_u8(buf, 1), BytesData(m.payload.v)) ELSE buf

\* if let Some(payload) = &self.payload { buf.put(payload) }
write_payload(buf, m) ==
    IF m.payload.some THEN put(buf, BytesData(m.payload.v)) ELSE buf

\* write_message_crc with the CRC taken over the bytes after the prelude only
write_message_crc_skip_prelude(buf) ==
    put_u32(buf, Crc32_checksum_u32(SubSeq(buf, 13, Len(buf))))

\* let message_crc = Crc32::checksum_u32(&buf); buf.put_u32(message_crc)
write_message_crc(buf) == put_u32(buf, Crc32_checksum_u32(buf))

serialize(m) ==
    LET hl == compute_headers_len(m)
        total_byte_length == length_field(compute_total_len(hl, payload_len(m)))
        headers_byte_length == length_field(hl)
    IN  IF ~total_byte_length.ok THEN total_byte_length
        ELSE IF ~headers_byte_length.ok THEN headers_byte_length
        ELSE LET written ==
                     write_headers(
                         write_prelude(total_byte_length.val, headers_byte_length.val),
                         m.headers, 1)
             IN  IF ~written.ok THEN written
                 ELSE Ok(write_message_crc(write_payload(written.val, m)))

(***************************************************************************)
(* tests::parse_message: the decoder of the wire layout.  A String is its  *)
(* UTF-8 bytes; a failed assert, unwrap or slice index is a panic.         *)
(***************************************************************************)
\* the length of the UTF-8 sequence a byte starts; 0 for a byte that starts none
Utf8Width(b) ==
    IF b < 128 THEN 1
    ELSE IF b >= 194 /\ b <= 223 THEN 2
    ELSE IF b >= 224 /\ b <= 239 THEN 3
    ELSE IF b >= 240 /\ b <= 244 THEN 4
    ELSE 0

IsCont(s, i) == i <= Len(s) /\ s[i] >= 128 /\ s[i] <= 191

\* std::str::from_utf8(..).is_ok(): every byte starts a sequence that is
\* complete, not overlong, no surrogate and at most U+10FFFF, or continues
\* the sequence started up to three bytes before it
Utf8ByteOk(s, i) ==
    LET b == s[i]
    IN  IF b >= 128 /\ b <= 191
        THEN \E j \in 1..3 : i - j >= 1 /\ Utf8Width(s[i - j]) > j
        ELSE /\ Utf8Width(b) > 0
             /\ \A j \in 1..(Utf8Width(b) - 1) : IsCont(s, i + j)
             /\ (b = 224 => s[i + 1] >= 160)
             /\ (b = 237 => s[i + 1] <= 159)
             /\ (b = 240 => s[i + 1] >= 144)
             /\ (b = 244 => s[i + 1] <= 143)

from_utf8_ok(s) == \A i \in 1..Len(s) : Utf8ByteOk(s, i)

\* data[from..to], offsets counted from 0
Slice(data, from, to) == SubSeq(data, from + 1, to)

Panic == [panic |-> TRUE]

\* the while loop over the headers region; offset counts from 0
RECURSIVE parse_headers(_, _, _, _)
parse_headers(data, offset, headers_end, headers) ==
    IF ~(offset < headers_end) THEN [panic |-> FALSE, headers |-> headers, offset |-> offset]
    ELSE IF offset >= Len(data) THEN Panic
    ELSE LET name_len == data[offset + 1]
             name_at == offset + 1
             type_at == name_at + name_len
         IN  IF type_at > Len(data) \/ ~from_utf8_ok(Slice(data, name_at, type_at))
             THEN Panic
             ELSE IF type_at >= Len(data) \/ data[type_at + 1] # 7 THEN Panic
             ELSE IF type_at + 3 > Len(data) THEN Panic
             ELSE LET value_len == u16_from_be_bytes(Slice(data, type_at + 1, type_at + 3))
                      value_at == type_at + 3
                      next == value_at + value_len
                  IN  IF next > Len(data) \/ ~from_utf8_ok(Slice(data, value_at, next))
                      THEN Panic
                      ELSE parse_headers(data, next, headers_end,
                               Append(headers, <<Slice(data, name_at, type_at),
                                                 Slice(data, value_at, next)>>))

parse_message(data) ==
    IF Len(data) < 16 THEN Panic
    ELSE LET total_len == u32_from_be_bytes(Slice(data, 0, 4))
             headers_len == u32_from_be_bytes(Slice(data, 4, 8))
         IN  IF W(Len(data)) # total_len THEN Panic
             ELSE IF u32_from_be_bytes(Slice(data, 8, 12)) # Crc32_checksum_u32(Slice(data, 0, 8))
             THEN Panic
             ELSE IF u32_from_be_bytes(Slice(data, Len(data) - 4, Len(data)))
                        # Crc32_checksum_u32(Slice(data, 0, Len(data) - 4))
             THEN Panic
             ELSE LET headers_end == 12 + WToInt(headers_len)
                      hs == parse_headers(data, 12, headers_end, <<>>)
                      payload_end == Len(data) - 4
                  IN  IF hs.panic THEN Panic
                      ELSE [panic |-> FALSE,
                            headers |-> hs.headers,
                            payload |-> IF headers_end < payload_end
                                        THEN Some(Slice(data, headers_end, payload_end))
                                        ELSE None]

(***************************************************************************)
(* Event-to-frame mapping.                                                 *)
(***************************************************************************)
EVENT_TYPE == <<58, 101, 118, 101, 110, 116, 45, 116, 121, 112, 101>>
MESSAGE_TYPE == <<58, 109, 101, 115, 115, 97, 103, 101, 45, 116, 121, 112, 101>>
CONTENT_TYPE == <<58, 99, 111, 110, 116, 101, 110, 116, 45, 116, 121, 112, 101>>
ERROR_CODE == <<58, 101, 114, 114, 111, 114, 45, 99, 111, 100, 101>>
ERROR_MESSAGE == <<58, 101, 114, 114, 111, 114, 45, 109, 101, 115, 115, 97, 103, 101>>
STR_Cont == <<67, 111, 110, 116>>
STR_End == <<69, 110, 100>>
STR_Progress == <<80, 114, 111, 103, 114, 101, 115, 115>>
STR_Records == <<82, 101, 99, 111, 114, 100, 115>>
STR_Stats == <<83, 116, 97, 116, 115>>
STR_event == <<101, 118, 101, 110, 116>>
STR_error == <<101, 114, 114, 111, 114>>
STR_text_xml == <<116, 101, 120, 116, 47, 120, 109, 108>>
STR_octet_stream == <<97, 112, 112, 108, 105, 99, 97, 116, 105, 111, 110, 47, 111, 99, 116, 101, 116, 45, 115, 116, 114, 101, 97, 109>>
STR_InternalError == <<73, 110, 116, 101, 114, 110, 97, 108, 69, 114, 114, 111, 114>>

\* static_str
static_str(s) == B(s)

\* const_headers: the pairs pushed in order
const_headers(hs) == [i \in 1..Len(hs) |-> Header(static_str(hs[i][1]), static_str(hs[i][2]))]

\* xml::Serializer: the declaration, then the value under its root element
XML_DECL == <<60, 63, 120, 109, 108, 32, 118, 101, 114, 115, 105, 111, 110, 61, 34, 49, 46, 48, 34, 32, 101, 110, 99, 111, 100, 105, 110, 103, 61, 34, 85, 84, 70, 45, 56, 34, 63, 62>>
xml_serialize(root, children) ==
    XML_DECL \o <<60>> \o root \o <<62>> \o children \o <<60, 47>> \o root \o <<62>>

\* xml_payload
xml_payload(root, val) == B(xml_serialize(root, val))

\* SelectObjectContentEvent values
ContEvent == [variant |-> "Cont"]
EndEvent == [variant |-> "End"]
ProgressEvent(details) == [variant |-> "Progress", details |-> details]
RecordsEvent(payload) == [variant |-> "Records", payload |-> payload]
StatsEvent(details) == [variant |-> "Stats", details |-> details]

\* ContinuationEvent::into_message without the :message-type header
ContinuationEvent_into_message_no_message_type ==
    Message(const_headers(<<<<EVENT_TYPE, STR_Cont>>>>), None)

ContinuationEvent_into_message ==
    Message(const_headers(<<<<EVENT_TYPE, STR_Cont>>, <<MESSAGE_TYPE, STR_event>>>>), None)

EndEvent_into_message ==
    Message(const_headers(<<<<EVENT_TYPE, STR_End>>, <<MESSAGE_TYPE, STR_event>>>>), None)

ProgressEvent_into_message(e) ==
    Message(const_headers(<<<<EVENT_TYPE, STR_Progress>>, <<CONTENT_TYPE, STR_text_xml>>,
                            <<MESSAGE_TYPE, STR_event>>>>),
            IF e.details.some THEN Some(xml_payload(STR_Progress, e.details.v)) ELSE None)

RecordsEvent_into_message(e) ==
    Message(const_headers(<<<<EVENT_TYPE, STR_Records>>, <<CONTENT_TYPE, STR_octet_stream>>,
                            <<MESSAGE_TYPE, STR_event>>>>),
            e.payload)

\* StatsEvent::into_message with the event type of a Progress event
StatsEvent_into_message_as_progress(e) ==
    Message(const_headers(<<<<EVENT_TYPE, STR_Progress>>, <<CONTENT_TYPE, STR_text_xml>>,
                            <<MESSAGE_TYPE, STR_event>>>>),
            IF e.details.some THEN Some(xml_payload(STR_Progress, e.details.v)) ELSE None)

StatsEvent_into_message(e) ==
    Message(const_headers(<<<<EVENT_TYPE, STR_Stats>>, <<CONTENT_TYPE, STR_text_xml>>,
                            <<MESSAGE_TYPE, STR_event>>>>),
            IF e.details.some THEN Some(xml_payload(STR_Stats, e.details.v)) ELSE None)

\* SelectObjectContentEvent::into_message
into_message(e) ==
    CASE e.variant = "Cont" -> ContinuationEvent_into_message
      [] e.variant = "End" -> EndEvent_into_message
      [] e.variant = "Progress" -> ProgressEvent_into_message(e)
      [] e.variant = "Records" -> RecordsEvent_into_message(e)
      [] e.variant = "Stats" -> StatsEvent_into_message(e)

\* S3Error: a code and an optional message (a String, as Bytes).  A code is a
\* well-known one, with its fixed name, or Custom with the caller's text.
KnownCode(name) == [custom |-> FALSE, name |-> name]
CustomCode(text) == [custom |-> TRUE, text |-> text]
S3Error(code, message) == [code |-> code, message |-> message]

\* S3ErrorCode::as_static_str
as_static_str(code) == IF code.custom THEN None ELSE Some(code.name)

\* request_level_error with :error-message left out when there is no message
request_level_error_no_empty(e) ==
    LET s == as_static_str(e.code)
        code == IF s.some THEN static_str(s.v) ELSE e.code.text
    IN  Message(<<Header(static_str(ERROR_CODE), code)>>
                \o (IF e.message.some
                    THEN <<Header(static_str(ERROR_MESSAGE), e.message.v)>>
                    ELSE <<>>)
                \o <<Header(static_str(MESSAGE_TYPE), static_str(STR_error))>>,
                None)

\* request_level_error with the message carried as the payload
request_level_error_message_as_payload(e) ==
    LET s == as_static_str(e.code)
        code == IF s.some THEN static_str(s.v) ELSE e.code.text
    IN  Message(<<Header(static_str(ERROR_CODE), code),
                  Header(static_str(ERROR_MESSAGE), B(<<>>)),
                  Header(static_str(MESSAGE_TYPE), static_str(STR_error))>>,
                e.message)

request_level_error(e) ==
    LET s == as_static_str(e.code)
        code == IF s.some THEN static_str(s.v) ELSE e.code.text
        message == IF e.message.some THEN e.message.v ELSE B(<<>>)
    IN  Message(<<Header(static_str(ERROR_CODE), code),
                  Header(static_str(ERROR_MESSAGE), message),
                  Header(static_str(MESSAGE_TYPE), static_str(STR_error))>>,
                None)

\* event_into_bytes with an error frame that cannot be serialized replaced
\* by the frame of a plain InternalError
event_into_bytes_fallback_frame(ev) ==
    IF ev.ok THEN serialize(into_message(ev.val))
    ELSE LET r == serialize(request_level_error(ev.err))
         IN  IF r.ok THEN r
             ELSE serialize(request_level_error(S3Error(KnownCode(STR_InternalError), None)))

\* event_into_bytes: ev is an S3Result<SelectObjectContentEvent>
event_into_bytes(ev) ==
    IF ev.ok THEN serialize(into_message(ev.val))
    ELSE serialize(request_level_error(ev.err))

(***************************************************************************)
(* The inner stream and Wrapper (the byte stream of into_byte_stream).     *)
(* The inner stream is futures::stream::iter over `upstream`, as in the    *)
(* tests; a stream in general may also not be ready when polled.           *)
(***************************************************************************)
\* 65536 and isize::MAX as usize, 2^32 - 16 as usize
LEN_65536 == <<0, 1, 0, 0>>
ISIZE_MAX == <<65535, 65535, 65535, 32767>>
LEN_4G_LESS_16 == <<65520, 65535, 0, 0>>

Events ==
    {ContEvent, EndEvent,
     ProgressEvent(None), ProgressEvent(Some(<<49>>)),
     RecordsEvent(None), RecordsEvent(Some(B(<<>>))), RecordsEvent(Some(B(<<99, 115, 118>>))),
     StatsEvent(None), StatsEvent(Some(<<50>>))}

Errors ==
    {S3Error(KnownCode(STR_InternalError), None),
     S3Error(KnownCode(STR_InternalError), Some(B(<<111, 111, 112, 115>>))),
     S3Error(CustomCode(B(<<67, 117, 115, 116, 111, 109, 69, 114, 114>>)), Some(B(<<109>>))),
     S3Error(KnownCode(STR_InternalError), Some(Filled(109, LEN_65536))),
     S3Error(CustomCode(Filled(99, LEN_65536)), None),
     S3Error(CustomCode(Filled(99, ISIZE_MAX)), Some(Filled(109, ISIZE_MAX)))}

Items == {Ok(e) : e \in Events} \cup {Err(e) : e \in Errors}

Upstreams == UNION {[1..n -> Items] : n \in 0..MaxUpstream}

\* an error with the longest message an error frame can carry, 65535 bytes,
\* followed by an error whose message is one byte longer
BoundaryUpstreams ==
    {<<Err(S3Error(KnownCode(STR_InternalError), Some(Filled(109, W(U16_MAX))))),
       Err(S3Error(KnownCode(STR_InternalError), Some(Filled(109, LEN_65536))))>>}

NoMessage == Message(<<>>, None)

\* ChecksumHasher::default: no algorithm is active
ChecksumHasher_default ==
    [crc32 |-> None, crc32c |-> None, sha1 |-> None, sha256 |-> None, crc64nvme |-> None]

\* SimpleAuth::new: the map is empty
SimpleAuth_new == [map |-> [k \in {} |-> None]]

\* the components a specification does not exercise stay as constructed
StreamIdle == upstream = <<>> /\ pos = 0 /\ out = <<>> /\ last_poll = "none"
CodecIdle == msg = NoMessage /\ result = None /\ parsed = None
HashIdle ==
    /\ hasher = None
    /\ fed = <<>>
    /\ checksum = None
    /\ single = None
    /\ digest = None
AuthIdle == auth = SimpleAuth_new /\ calls = <<>> /\ auth_ret = None
RegionIdle == region_s = <<>> /\ region = None /\ region_ret = None
SecretIdle == creds = <<>> /\ secret_ret = None

Init ==
    /\ upstream \in Upstreams \cup BoundaryUpstreams
    /\ pos = 0
    /\ out = <<>>
    /\ last_poll = "none"
    /\ msg = NoMessage
    /\ result = None
    /\ parsed = None
    /\ HashIdle /\ AuthIdle /\ RegionIdle /\ SecretIdle

\* Wrapper::poll_next, the inner stream not ready: ready! returns Pending
PollPending ==
    /\ last_poll' = "Pending"
    /\ UNCHANGED <<upstream, pos, out, msg, result, parsed>>
    /\ UNCHANGED <<hash_vars, auth_vars, region_vars, secret_vars>>

\* PollItem with a failed serialization dropped instead of returned
PollItem_drop_err ==
    /\ pos < Len(upstream)
    /\ pos' = pos + 1
    /\ out' = IF event_into_bytes(upstream[pos + 1]).ok
              THEN Append(out, event_into_bytes(upstream[pos + 1]))
              ELSE out
    /\ last_poll' = "Some"
    /\ UNCHANGED <<upstream, msg, result, parsed>>
    /\ UNCHANGED <<hash_vars, auth_vars, region_vars, secret_vars>>

\* Wrapper::poll_next, the inner stream yields Some(ev): the chunk is
\* Ok(bytes) or Err(the boxed SerError)
PollItem ==
    /\ pos < Len(upstream)
    /\ pos' = pos + 1
    /\ out' = Append(out, event_into_bytes(upstream[pos + 1]))
    /\ last_poll' = "Some"
    /\ UNCHANGED <<upstream, msg, result, parsed>>
    /\ UNCHANGED <<hash_vars, auth_vars, region_vars, secret_vars>>

\* Wrapper::poll_next, the inner stream yields None
PollEnd ==
    /\ pos = Len(upstream)
    /\ last_poll' = "None"
    /\ UNCHANGED <<upstream, pos, out, msg, result, parsed>>
    /\ UNCHANGED <<hash_vars, auth_vars, region_vars, secret_vars>>

Next == PollPending \/ PollItem \/ PollEnd

Spec == Init /\ [][Next]_vars

\* Iter::size_hint of the inner stream, forwarded by
\* SelectObjectContentEventStream::size_hint
inner_size_hint == <<Len(upstream) - pos, Some(Len(upstream) - pos)>>
SelectObjectContentEventStream_size_hint == inner_size_hint

\* Wrapper has no size_hint of its own: Stream's provided method
Wrapper_size_hint == <<0, None>>

(***************************************************************************)
(* The codec on its own: a Message is built, serialized, and the bytes     *)
(* are decoded by parse_message.                                           *)
(***************************************************************************)
Names == {B(<<>>), B(<<58, 97>>), Filled(97, W(255)), Filled(97, W(256))}
Values == {B(<<>>), B(<<118>>), B(<<195>>), Filled(98, LEN_65536), Filled(0, ISIZE_MAX)}
Payloads ==
    {None, Some(B(<<>>)), Some(B(<<7, 0>>)), Some(Filled(0, LEN_4G_LESS_16)),
     Some(Filled(0, ISIZE_MAX))}

Headers == {Header(n, v) : n \in Names, v \in Values}
HeaderLists == UNION {[1..n -> Headers] : n \in 0..MaxHeaders}

\* the largest header the wire format can carry: a 255-byte name and a
\* 65535-byte value
BoundaryMessages ==
    {Message(<<Header(Filled(97, W(U8_MAX)), Filled(98, W(U16_MAX)))>>, None)}

CodecInit ==
    /\ msg \in {Message(hs, p) : hs \in HeaderLists, p \in Payloads} \cup BoundaryMessages
    /\ result = None
    /\ parsed = None
    /\ upstream = <<>>
    /\ pos = 0
    /\ out = <<>>
    /\ last_poll = "none"
    /\ HashIdle /\ AuthIdle /\ RegionIdle /\ SecretIdle

\* msg.serialize()
Serialize ==
    /\ result = None
    /\ result' = Some(serialize(msg))
    /\ UNCHANGED <<msg, parsed, upstream, pos, out, last_poll>>
    /\ UNCHANGED <<hash_vars, auth_vars, region_vars, secret_vars>>

\* parse_message(&bytes)
Parse ==
    /\ result.some
    /\ result.v.ok
    /\ parsed = None
    /\ parsed' = Some(parse_message(result.v.val))
    /\ UNCHANGED <<msg, result, upstream, pos, out, last_poll>>
    /\ UNCHANGED <<hash_vars, auth_vars, region_vars, secret_vars>>

CodecNext == Serialize \/ Parse

SpecCodec == CodecInit /\ [][CodecNext]_vars

(***************************************************************************)
(* Properties of the streaming adapter, under Spec.                        *)
(***************************************************************************)
Emitted == 1..Len(out)

\* the header values request_level_error gives an error, as plain bytes
ErrorCodeLen(e) == IF e.code.custom THEN BytesLen(e.code.text) ELSE W(Len(e.code.name))
ErrorMessageLen(e) == IF e.message.some THEN BytesLen(e.message.v) ELSE W(0)
ErrorCodeData(e) == IF e.code.custom THEN BytesData(e.code.text) ELSE e.code.name
ErrorMessageData(e) == IF e.message.some THEN BytesData(e.message.v) ELSE <<>>

\* bytes decode, with both CRCs and the total length right, to the one error
\* frame of e
IsErrorFrameOf(bytes, e) ==
    LET p == parse_message(bytes)
    IN  /\ ~p.panic
        /\ p.headers = <<<<ERROR_CODE, ErrorCodeData(e)>>,
                         <<ERROR_MESSAGE, ErrorMessageData(e)>>,
                         <<MESSAGE_TYPE, STR_error>>>>
        /\ p.payload = None

\* C1: once the chunk of an upstream error item has been emitted as an error
\* frame, it is the last chunk: no chunk follows it, whatever the upstream
\* still yields.
C1_ErrorFrameIsFinalChunk ==
    \A k \in Emitted : (~upstream[k].ok /\ out[k].ok) => k = Len(out)

\* C2: an Err chunk is emitted only for a SerError of the local serialization,
\* and no chunk follows an Err chunk.
C2_ErrChunkEndsTheStream ==
    \A k \in Emitted :
        ~out[k].ok => /\ out[k].err \in {LengthOverflow, IntOverflow}
                      /\ k = Len(out)

\* C3 as stated: every upstream error item is emitted as an Ok chunk holding
\* its well-formed error frame, never as an Err chunk.
C3_EveryErrorAbsorbed ==
    \A k \in Emitted :
        ~upstream[k].ok => out[k].ok /\ IsErrorFrameOf(out[k].val, upstream[k].err)

\* C3 amended: every upstream error item whose code text and message are each
\* at most 65535 bytes long is emitted as an Ok chunk holding its well-formed
\* error frame.
C3_ErrorAbsorbedWhenFieldsFit ==
    \A k \in Emitted :
        (/\ ~upstream[k].ok
         /\ WFits(ErrorCodeLen(upstream[k].err), 16)
         /\ WFits(ErrorMessageLen(upstream[k].err), 16))
        => out[k].ok /\ IsErrorFrameOf(out[k].val, upstream[k].err)

C3_Witness ==
    \E k \in Emitted :
        /\ ~upstream[k].ok
        /\ ~upstream[k].err.message.some
        /\ out[k].ok
        /\ \E j \in Emitted : ~upstream[j].ok /\ upstream[j].err.code.custom /\ out[j].ok

\* C4: the chunks correspond one to one, in order, to the upstream items
\* consumed: the k-th chunk is the serialization of the k-th item, a poll
\* consumes at most one item and emits a chunk exactly when it consumes one,
\* and the end of the sequence is returned only when the upstream is exhausted.
C4_OneToOneInOrder ==
    /\ [](/\ Len(out) = pos
          /\ pos <= Len(upstream)
          /\ \A k \in Emitted : out[k] = event_into_bytes(upstream[k])
          /\ (last_poll = "None" => pos = Len(upstream)))
    /\ [][/\ pos' \in {pos, pos + 1}
          /\ Len(out') = Len(out) + (pos' - pos)
          /\ SubSeq(out', 1, Len(out)) = out
          /\ (pos' = pos + 1 <=> last_poll' = "Some")]_vars

C4_Witness ==
    /\ Len(out) = 2
    /\ out[1].ok
    /\ ~out[2].ok
    /\ last_poll = "None"

\* C5: the size_hint of the byte stream equals the size_hint of the event
\* stream it wraps, at every point of consumption.
C5_SizeHintForwarded ==
    Wrapper_size_hint = SelectObjectContentEventStream_size_hint

(***************************************************************************)
(* Properties of the framing codec, under SpecCodec.                       *)
(***************************************************************************)
Serialized == result.some /\ result.v.ok

\* the header list and the payload msg was built from, as plain bytes
BuiltHeaders ==
    [i \in 1..Len(msg.headers) |->
        <<BytesData(msg.headers[i].name), BytesData(msg.headers[i].value)>>]
BuiltPayload == IF msg.payload.some THEN Some(BytesData(msg.payload.v)) ELSE None

HeadersAreUtf8 ==
    \A i \in 1..Len(msg.headers) :
        /\ from_utf8_ok(BytesData(msg.headers[i].name))
        /\ from_utf8_ok(BytesData(msg.headers[i].value))

\* C6 as stated: decoding the bytes of a serialized Message recovers exactly
\* its header list and exactly its payload.
C6_RoundTripExact ==
    parsed.some =>
        /\ ~parsed.v.panic
        /\ parsed.v.headers = BuiltHeaders
        /\ parsed.v.payload = BuiltPayload

\* C6 amended: for a serialized Message whose header names and values are
\* valid UTF-8, parse_message recovers exactly the header list (names, values,
\* order, count) and the payload bytes, except that a present but empty
\* payload is decoded as absent.
C6_RoundTripUpToEmptyPayload ==
    (parsed.some /\ HeadersAreUtf8) =>
        /\ ~parsed.v.panic
        /\ parsed.v.headers = BuiltHeaders
        /\ parsed.v.payload =
              (IF msg.payload.some /\ msg.payload.v.len # W(0) THEN BuiltPayload ELSE None)

C6_Witness ==
    /\ parsed.some
    /\ ~parsed.v.panic
    /\ Len(parsed.v.headers) = 2
    /\ parsed.v.headers[1] # parsed.v.headers[2]
    /\ parsed.v.payload = Some(<<7, 0>>)

\* C7: the total_length field, bytes 0..4 of a serialized Message, is the
\* number of bytes of the output.
C7_TotalLengthIsByteCount ==
    Serialized => u32_from_be_bytes(Slice(result.v.val, 0, 4)) = W(Len(result.v.val))

C7_Witness ==
    /\ Serialized
    /\ Len(msg.headers) = 2
    /\ msg.payload = Some(B(<<7, 0>>))
    /\ Len(result.v.val) > 16 + 2

\* C8: bytes 8..12 are the CRC-32/ISO-HDLC, big-endian, of the first 8 bytes,
\* and the last 4 bytes are the CRC-32 of every byte before them; the CRC is
\* the one whose check value of "123456789" is 0xCBF43926.
C8_BothCrcsCoverTheirBytes ==
    /\ put_u32(<<>>, Crc32_checksum_u32(<<49, 50, 51, 52, 53, 54, 55, 56, 57>>))
          = <<203, 244, 57, 38>>
    /\ Serialized =>
          LET data == result.v.val
              n == Len(data)
          IN  /\ Slice(data, 8, 12) = put_u32(<<>>, Crc32_checksum_u32(Slice(data, 0, 8)))
              /\ Slice(data, n - 4, n) = put_u32(<<>>, Crc32_checksum_u32(Slice(data, 0, n - 4)))

C8_Witness ==
    /\ Serialized
    /\ Len(msg.headers) > 0
    /\ msg.payload = Some(B(<<7, 0>>))

\* C9: a Message with a header whose name is 256 bytes or longer, or whose
\* value is 65536 bytes or longer, at any position, serializes to a SerError
\* that carries no bytes.
HasOversizedHeader ==
    \E i \in 1..Len(msg.headers) :
        \/ ~WFits(BytesLen(msg.headers[i].name), 8)
        \/ ~WFits(BytesLen(msg.headers[i].value), 16)

C9_OversizedHeaderFails ==
    (result.some /\ HasOversizedHeader) =>
        /\ ~result.v.ok
        /\ result.v.err \in {LengthOverflow, IntOverflow}
        /\ DOMAIN result.v = {"ok", "err"}

C9_Witness ==
    /\ result.some
    /\ Len(msg.headers) = 2
    /\ WFits(BytesLen(msg.headers[1].name), 8)
    /\ WFits(BytesLen(msg.headers[1].value), 16)
    /\ BytesLen(msg.headers[2].name) = W(256)
    /\ result.v = Err(IntOverflow)

\* the sums as unbounded numbers, up to 2^64 - 1
WSatAdd(a, b) ==
    LET s == WAdd(a, b)
    IN  IF s.carry = 0 THEN s.sum ELSE <<65535, 65535, 65535, 65535>>

RECURSIVE HeadersByteCount(_, _)
HeadersByteCount(hs, i) ==
    IF i > Len(hs) THEN W(0)
    ELSE WSatAdd(WSatAdd(WSatAdd(W(4), BytesLen(hs[i].name)), BytesLen(hs[i].value)),
                 HeadersByteCount(hs, i + 1))

TotalByteCount ==
    WSatAdd(WSatAdd(HeadersByteCount(msg.headers, 1), W(16)),
            IF msg.payload.some THEN BytesLen(msg.payload.v) ELSE W(0))

\* C10: when the sum of the header lengths or the total frame length exceeds
\* 2^32 - 1, serialize fails with LengthOverflow, not IntOverflow.
C10_TooLongIsLengthOverflow ==
    (result.some /\ ~WFits(TotalByteCount, 32)) => result.v = Err(LengthOverflow)

(***************************************************************************)
(* Properties of the event-to-frame mapping, under Spec.                   *)
(***************************************************************************)
\* the bytes between the headers region and the message CRC of a frame
FramePayloadBytes(bytes) ==
    Slice(bytes, 12 + WToInt(u32_from_be_bytes(Slice(bytes, 4, 8))), Len(bytes) - 4)

\* the event type name of each variant, as the specification's table gives it
EventTypeName(variant) ==
    CASE variant = "Cont" -> <<67, 111, 110, 116>>
      [] variant = "End" -> <<69, 110, 100>>
      [] variant = "Progress" -> <<80, 114, 111, 103, 114, 101, 115, 115>>
      [] variant = "Records" -> <<82, 101, 99, 111, 114, 100, 115>>
      [] variant = "Stats" -> <<83, 116, 97, 116, 115>>

\* the content type of each variant, None where the table has a dash
EventContentType(variant) ==
    CASE variant \in {"Cont", "End"} -> None
      [] variant \in {"Progress", "Stats"} -> Some(<<116, 101, 120, 116, 47, 120, 109, 108>>)
      [] variant = "Records" ->
            Some(<<97, 112, 112, 108, 105, 99, 97, 116, 105, 111, 110, 47,
                   111, 99, 116, 101, 116, 45, 115, 116, 114, 101, 97, 109>>)

\* the payload of each event, None where it has none
EventPayload(e) ==
    CASE e.variant \in {"Cont", "End"} -> None
      [] e.variant \in {"Progress", "Stats"} ->
            IF e.details.some
            THEN Some(xml_serialize(EventTypeName(e.variant), e.details.v))
            ELSE None
      [] e.variant = "Records" ->
            IF e.payload.some THEN Some(BytesData(e.payload.v)) ELSE None

HeaderNamed(headers, name) == {i \in 1..Len(headers) : headers[i][1] = name}

\* C11: every event item gives exactly one chunk, a frame that decodes to
\* :message-type=event and the :event-type of its variant; Cont and End have
\* no :content-type and no payload; Progress and Stats have
\* :content-type=text/xml and the XML of their details as payload if they have
\* details, else none; Records has :content-type=application/octet-stream and
\* its raw bytes as payload if it has any, else none.
C11_EventFrameMapping ==
    /\ Len(out) = pos
    /\ \A k \in Emitted :
          upstream[k].ok =>
             LET e == upstream[k].val
                 m == into_message(e)
                 p == parse_message(out[k].val)
                 ct == EventContentType(e.variant)
                 pl == EventPayload(e)
             IN  /\ out[k].ok
                 /\ ~p.panic
                 /\ \E i \in 1..Len(p.headers) :
                       /\ p.headers[i] = <<MESSAGE_TYPE, <<101, 118, 101, 110, 116>>>>
                       /\ HeaderNamed(p.headers, MESSAGE_TYPE) = {i}
                 /\ \E i \in 1..Len(p.headers) :
                       /\ p.headers[i] = <<EVENT_TYPE, EventTypeName(e.variant)>>
                       /\ HeaderNamed(p.headers, EVENT_TYPE) = {i}
                 /\ IF ct.some
                    THEN \E i \in 1..Len(p.headers) :
                            /\ p.headers[i] = <<CONTENT_TYPE, ct.v>>
                            /\ HeaderNamed(p.headers, CONTENT_TYPE) = {i}
                    ELSE HeaderNamed(p.headers, CONTENT_TYPE) = {}
                 /\ Len(p.headers) = (IF ct.some THEN 3 ELSE 2)
                 /\ m.payload.some = pl.some
                 /\ pl.some => BytesData(m.payload.v) = pl.v
                 /\ FramePayloadBytes(out[k].val) = (IF pl.some THEN pl.v ELSE <<>>)

C11_Witness ==
    /\ Len(out) = 2
    /\ upstream[1] = Ok(RecordsEvent(Some(B(<<99, 115, 118>>))))
    /\ upstream[2] = Ok(StatsEvent(Some(<<50>>)))
    /\ FramePayloadBytes(out[1].val) = <<99, 115, 118>>
    /\ Len(FramePayloadBytes(out[2].val)) > 0

\* the headers of m with the given name
MessageHeaderNamed(m, name) == {i \in 1..Len(m.headers) : m.headers[i].name = B(name)}

\* C12: a request-level error is translated into one frame without payload
\* whose headers are exactly :error-code, :error-message and
\* :message-type=error; :error-code is the fixed name of a well-known code or
\* the text of a Custom code; :error-message is always there, empty when the
\* error has no message and the message text otherwise; and the chunk of the
\* error, when it is serialized, decodes to that frame.
C12_ErrorFrameMapping ==
    /\ Len(out) = pos
    /\ \A k \in Emitted :
          ~upstream[k].ok =>
             LET e == upstream[k].err
                 m == request_level_error(e)
             IN  /\ Len(m.headers) = 3
                 /\ m.payload = None
                 /\ \E i \in MessageHeaderNamed(m, ERROR_CODE) :
                       /\ MessageHeaderNamed(m, ERROR_CODE) = {i}
                       /\ m.headers[i].value =
                             (IF e.code.custom THEN e.code.text ELSE B(e.code.name))
                 /\ \E i \in MessageHeaderNamed(m, ERROR_MESSAGE) :
                       /\ MessageHeaderNamed(m, ERROR_MESSAGE) = {i}
                       /\ m.headers[i].value.len = ErrorMessageLen(e)
                       /\ e.message.some => m.headers[i].value = e.message.v
                       /\ ~e.message.some => m.headers[i].value = B(<<>>)
                 /\ \E i \in MessageHeaderNamed(m, MESSAGE_TYPE) :
                       /\ MessageHeaderNamed(m, MESSAGE_TYPE) = {i}
                       /\ m.headers[i].value = B(<<101, 114, 114, 111, 114>>)
                 /\ out[k] = serialize(m)
                 /\ out[k].ok =>
                       /\ IsErrorFrameOf(out[k].val, e)
                       /\ FramePayloadBytes(out[k].val) = <<>>

C12_Witness ==
    /\ Len(out) = 2
    /\ upstream[1] = Err(S3Error(KnownCode(STR_InternalError), None))
    /\ upstream[2] = Err(S3Error(CustomCode(B(<<67, 117, 115, 116, 111, 109, 69, 114, 114>>)),
                                 Some(B(<<109>>))))
    /\ out[1].ok
    /\ parse_message(out[1].val).headers[2] = <<ERROR_MESSAGE, <<>>>>
    /\ parse_message(out[2].val).headers[1] =
          <<ERROR_CODE, <<67, 117, 115, 116, 111, 109, 69, 114, 114>>>>

(***************************************************************************)
(* The checksum algorithms of crypto.rs.  The CRCs are table driven over   *)
(* a register of bytes, most significant first; SHA-1, SHA-256 and MD5     *)
(* keep a chaining value of 32-bit words <<high 16 bits, low 16 bits>>, a  *)
(* buffer of less than one block, and the count of bytes absorbed.         *)
(***************************************************************************)
RegShiftRight1(c) ==
    [i \in 1..Len(c) |-> (c[i] \div 2) + (IF i > 1 THEN 128 * (c[i - 1] % 2) ELSE 0)]

RegXor(c, d) == [i \in 1..Len(c) |-> Xor8[c[i]][d[i]]]

RECURSIVE RegTableEntry(_, _, _)
RegTableEntry(poly, c, k) ==
    IF k = 0 THEN c
    ELSE RegTableEntry(poly,
                       IF c[Len(c)] % 2 = 1 THEN RegXor(poly, RegShiftRight1(c))
                       ELSE RegShiftRight1(c),
                       k - 1)

\* the reflected polynomials 0x82F63B78 of CrcAlgorithm::Crc32Iscsi and
\* 0x9A6C9329AC4BC9B5 of CrcAlgorithm::Crc64Nvme
CRC32C_POLY == <<130, 246, 59, 120>>
CRC64NVME_POLY == <<154, 108, 147, 41, 172, 75, 201, 181>>

Crc32cTable == [n \in 0..255 |-> RegTableEntry(CRC32C_POLY, <<0, 0, 0, n>>, 8)]
Crc64NvmeTable ==
    [n \in 0..255 |-> RegTableEntry(CRC64NVME_POLY, <<0, 0, 0, 0, 0, 0, 0, n>>, 8)]

\* one byte into a register
Reg_step(table, h, byte) ==
    RegXor(table[Xor8[h[Len(h)]][byte]], <<0>> \o SubSeq(h, 1, Len(h) - 1))

\* the bytes data[lo..hi] into a register, in order
RECURSIVE Reg_update_range(_, _, _, _, _)
Reg_update_range(table, h, data, lo, hi) ==
    IF lo > hi THEN h
    ELSE IF lo = hi THEN Reg_step(table, h, data[lo])
    ELSE LET mid == (lo + hi) \div 2
             left == Reg_update_range(table, h, data, lo, mid)
         IN  IF Len(left) = Len(h) THEN Reg_update_range(table, left, data, mid + 1, hi)
             ELSE left

\* Crc32: finalize and the provided checksum
u32_to_be_bytes(w) == put_u32(<<>>, w)
Crc32_finalize_le(h) ==
    LET b == u32_to_be_bytes(truncating_cast_u32(Digest_finalize(h)))
    IN  <<b[4], b[3], b[2], b[1]>>
Crc32_finalize(h) == u32_to_be_bytes(truncating_cast_u32(Digest_finalize(h)))
Crc32_checksum(data) == Crc32_finalize(Crc32_update(Crc32_new, data))

\* Crc32c
Crc32c_new == <<255, 255, 255, 255>>
Crc32c_update(h, data) == Reg_update_range(Crc32cTable, h, data, 1, Len(data))
Crc32c_finalize(h) == u32_to_be_bytes(truncating_cast_u32(Digest_finalize(h)))

\* Crc64Nvme
Crc64Nvme_new == <<255, 255, 255, 255, 255, 255, 255, 255>>
Crc64Nvme_update(h, data) == Reg_update_range(Crc64NvmeTable, h, data, 1, Len(data))
\* crc_fast::Digest::finalize of a 64-bit CRC, and u64::to_be_bytes
Digest64_finalize(h) ==
    LET x == RegXor(h, <<255, 255, 255, 255, 255, 255, 255, 255>>)
    IN  <<x[7] * 256 + x[8], x[5] * 256 + x[6], x[3] * 256 + x[4], x[1] * 256 + x[2]>>
u64_to_be_bytes(w) ==
    <<w[4] \div 256, w[4] % 256, w[3] \div 256, w[3] % 256,
      w[2] \div 256, w[2] % 256, w[1] \div 256, w[1] % 256>>
Crc64Nvme_finalize(h) == u64_to_be_bytes(Digest64_finalize(h))

\* 32-bit words
RECURSIVE BitAnd(_, _)
BitAnd(a, b) ==
    IF a = 0 \/ b = 0 THEN 0
    ELSE ((a % 2) * (b % 2)) + 2 * BitAnd(a \div 2, b \div 2)

And8 == [a \in 0..255 |-> [b \in 0..255 |-> BitAnd(a, b)]]

Xor16(p, q) == Xor8[p \div 256][q \div 256] * 256 + Xor8[p % 256][q % 256]
And16(p, q) == And8[p \div 256][q \div 256] * 256 + And8[p % 256][q % 256]
W32Xor(a, b) == <<Xor16(a[1], b[1]), Xor16(a[2], b[2])>>
W32And(a, b) == <<And16(a[1], b[1]), And16(a[2], b[2])>>
W32Not(a) == <<65535 - a[1], 65535 - a[2]>>
W32Or(a, b) == W32Not(W32And(W32Not(a), W32Not(b)))
W32Add(a, b) ==
    LET lo == a[2] + b[2]
    IN  <<(a[1] + b[1] + (lo \div 65536)) % 65536, lo % 65536>>
W32Rotr(a, n) ==
    LET s == IF n >= 16 THEN <<a[2], a[1]>> ELSE a
        k == n % 16
    IN  IF k = 0 THEN s
        ELSE <<(s[1] \div 2^k) + (s[2] % 2^k) * 2^(16 - k),
               (s[2] \div 2^k) + (s[1] % 2^k) * 2^(16 - k)>>
W32Rotl(a, n) == W32Rotr(a, 32 - n)
W32Shr(a, n) ==
    IF n >= 16 THEN <<0, a[1] \div 2^(n - 16)>>
    ELSE <<a[1] \div 2^n, (a[2] \div 2^n) + (a[1] % 2^n) * 2^(16 - n)>>
W32FromBe(d, i) == <<d[i] * 256 + d[i + 1], d[i + 2] * 256 + d[i + 3]>>
W32FromLe(d, i) == <<d[i + 3] * 256 + d[i + 2], d[i + 1] * 256 + d[i]>>
W32ToBe(a) == <<a[1] \div 256, a[1] % 256, a[2] \div 256, a[2] % 256>>
W32ToLe(a) == <<a[2] % 256, a[2] \div 256, a[1] % 256, a[1] \div 256>>
WordsToBe(h) == [i \in 1..(4 * Len(h)) |-> W32ToBe(h[((i - 1) \div 4) + 1])[((i - 1) % 4) + 1]]
WordsToLe(h) == [i \in 1..(4 * Len(h)) |-> W32ToLe(h[((i - 1) \div 4) + 1])[((i - 1) % 4) + 1]]

Zeros(n) == [i \in 1..n |-> 0]
\* the count of bits of n bytes as 8 bytes, n < 2^27
BitLenBe(n) ==
    <<0, 0, 0, 0, (n * 8) \div 16777216, ((n * 8) \div 65536) % 256,
      ((n * 8) \div 256) % 256, (n * 8) % 256>>
BitLenLe(n) ==
    <<(n * 8) % 256, ((n * 8) \div 256) % 256, ((n * 8) \div 65536) % 256,
      (n * 8) \div 16777216, 0, 0, 0, 0>>

\* SHA-256 (FIPS 180-4)
SHA256_K ==
    <<<<17034, 12184>>, <<28983, 17553>>, <<46528, 64463>>,
    <<59829, 56229>>, <<14678, 49755>>, <<23025, 4593>>, <<37439, 33444>>,
    <<43804, 24277>>, <<55303, 43672>>, <<4739, 23297>>, <<9265, 34238>>,
    <<21772, 32195>>, <<29374, 23924>>, <<32990, 45566>>, <<39900, 1703>>,
    <<49563, 61812>>, <<58523, 27073>>, <<61374, 18310>>, <<4033, 40390>>,
    <<9228, 41420>>, <<11753, 11375>>, <<19060, 33962>>, <<23728, 43484>>,
    <<30457, 35034>>, <<38974, 20818>>, <<43057, 50797>>, <<45059, 10184>>,
    <<48985, 32711>>, <<50912, 3059>>, <<54695, 37191>>, <<1738, 25425>>,
    <<5161, 10599>>, <<10167, 2693>>, <<11803, 8504>>, <<19756, 28156>>,
    <<21304, 3347>>, <<25866, 29524>>, <<30314, 2747>>, <<33218, 51502>>,
    <<37490, 11397>>, <<41663, 59553>>, <<43034, 26187>>, <<49739, 35696>>,
    <<51052, 20899>>, <<53650, 59417>>, <<54937, 1572>>, <<62478, 13701>>,
    <<4202, 41072>>, <<6564, 49430>>, <<7735, 27656>>, <<10056, 30540>>,
    <<13488, 48309>>, <<14620, 3251>>, <<20184, 43594>>, <<23452, 51791>>,
    <<26670, 28659>>, <<29839, 33518>>, <<30885, 25455>>, <<33992, 30740>>,
    <<36039, 520>>, <<37054, 65530>>, <<42064, 27883>>, <<48889, 41975>>,
    <<50801, 30962>>>>
SHA256_H0 ==
    <<<<27145, 58983>>, <<47975, 44677>>, <<15470, 62322>>,
    <<42319, 62778>>, <<20750, 21119>>, <<39685, 26764>>, <<8067, 55723>>,
    <<23520, 52505>>>>

RECURSIVE Sha256_schedule(_)
Sha256_schedule(w) ==
    IF Len(w) = 64 THEN w
    ELSE LET t == Len(w) + 1
             s0 == W32Xor(W32Xor(W32Rotr(w[t - 15], 7), W32Rotr(w[t - 15], 18)),
                          W32Shr(w[t - 15], 3))
             s1 == W32Xor(W32Xor(W32Rotr(w[t - 2], 17), W32Rotr(w[t - 2], 19)),
                          W32Shr(w[t - 2], 10))
         IN  Sha256_schedule(Append(w, W32Add(W32Add(W32Add(w[t - 16], s0), w[t - 7]), s1)))

RECURSIVE Sha256_rounds(_, _, _)
Sha256_rounds(s, w, t) ==
    IF t > 64 \/ Len(s) # 8 THEN s
    ELSE LET a == s[1]
             e == s[5]
             S1 == W32Xor(W32Xor(W32Rotr(e, 6), W32Rotr(e, 11)), W32Rotr(e, 25))
             ch == W32Xor(W32And(e, s[6]), W32And(W32Not(e), s[7]))
             t1 == W32Add(W32Add(W32Add(W32Add(s[8], S1), ch), SHA256_K[t]), w[t])
             S0 == W32Xor(W32Xor(W32Rotr(a, 2), W32Rotr(a, 13)), W32Rotr(a, 22))
             maj == W32Xor(W32Xor(W32And(a, s[2]), W32And(a, s[3])), W32And(s[2], s[3]))
             t2 == W32Add(S0, maj)
         IN  Sha256_rounds(<<W32Add(t1, t2), a, s[2], s[3], W32Add(s[4], t1), e, s[6], s[7]>>,
                           w, t + 1)

Sha256_compress(h, block) ==
    LET w == Sha256_schedule([i \in 1..16 |-> W32FromBe(block, 4 * i - 3)])
        s == Sha256_rounds(h, w, 1)
    IN  [i \in 1..8 |-> W32Add(h[i], s[i])]

\* SHA-1 (FIPS 180-4)
SHA1_H0 ==
    <<<<26437, 8961>>, <<61389, 43913>>, <<39098, 56574>>, <<4146, 21622>>,
    <<50130, 57840>>>>
SHA1_K ==
    <<<<23170, 31129>>, <<28377, 60321>>, <<36635, 48348>>,
    <<51810, 49622>>>>

RECURSIVE Sha1_schedule(_)
Sha1_schedule(w) ==
    IF Len(w) = 80 THEN w
    ELSE LET t == Len(w) + 1
         IN  Sha1_schedule(Append(w,
                W32Rotl(W32Xor(W32Xor(W32Xor(w[t - 3], w[t - 8]), w[t - 14]), w[t - 16]), 1)))

RECURSIVE Sha1_rounds(_, _, _)
Sha1_rounds(s, w, t) ==
    IF t > 80 \/ Len(s) # 5 THEN s
    ELSE LET b == s[2]
             c == s[3]
             d == s[4]
             f == IF t <= 20 THEN W32Xor(W32And(b, c), W32And(W32Not(b), d))
                  ELSE IF t <= 40 \/ t > 60 THEN W32Xor(W32Xor(b, c), d)
                  ELSE W32Xor(W32Xor(W32And(b, c), W32And(b, d)), W32And(c, d))
             temp == W32Add(W32Add(W32Add(W32Add(W32Rotl(s[1], 5), f), s[5]),
                                   SHA1_K[((t - 1) \div 20) + 1]), w[t])
         IN  Sha1_rounds(<<temp, s[1], W32Rotl(b, 30), c, d>>, w, t + 1)

Sha1_compress(h, block) ==
    LET w == Sha1_schedule([i \in 1..16 |-> W32FromBe(block, 4 * i - 3)])
        s == Sha1_rounds(h, w, 1)
    IN  [i \in 1..5 |-> W32Add(h[i], s[i])]

\* MD5 (RFC 1321)
MD5_INIT ==
    <<<<26437, 8961>>, <<61389, 43913>>, <<39098, 56574>>,
    <<4146, 21622>>>>
MD5_T ==
    <<<<55146, 42104>>, <<59591, 46934>>, <<9248, 28891>>,
    <<49597, 52974>>, <<62844, 4015>>, <<18311, 50730>>, <<43056, 17939>>,
    <<64838, 38145>>, <<27008, 39128>>, <<35652, 63407>>, <<65535, 23473>>,
    <<35164, 55230>>, <<27536, 4386>>, <<64920, 29075>>, <<42617, 17294>>,
    <<18868, 2081>>, <<63006, 9570>>, <<49216, 45888>>, <<9822, 23121>>,
    <<59830, 51114>>, <<54831, 4189>>, <<580, 5203>>, <<55457, 59009>>,
    <<59347, 64456>>, <<8673, 52710>>, <<49975, 2006>>, <<62677, 3463>>,
    <<17754, 5357>>, <<43491, 59653>>, <<64751, 41976>>, <<26479, 729>>,
    <<36138, 19594>>, <<65530, 14658>>, <<34673, 63105>>, <<28061, 24866>>,
    <<64997, 14348>>, <<42174, 59972>>, <<19422, 53161>>, <<63163, 19296>>,
    <<48831, 48240>>, <<10395, 32454>>, <<60065, 10234>>, <<54511, 12421>>,
    <<1160, 7429>>, <<55764, 53305>>, <<59099, 39397>>, <<8098, 31992>>,
    <<50348, 22117>>, <<62505, 8772>>, <<17194, 65431>>, <<43924, 9127>>,
    <<64659, 41017>>, <<25947, 22979>>, <<36620, 52370>>, <<65519, 62589>>,
    <<34180, 24017>>, <<28584, 32335>>, <<65068, 59104>>, <<41729, 17172>>,
    <<19976, 4513>>, <<63315, 32386>>, <<48442, 62005>>, <<10967, 53947>>,
    <<60294, 54161>>>>
MD5_S ==
    <<7, 12, 17, 22, 7, 12, 17, 22, 7, 12, 17, 22, 7, 12, 17, 22,
      5, 9, 14, 20, 5, 9, 14, 20, 5, 9, 14, 20, 5, 9, 14, 20,
      4, 11, 16, 23, 4, 11, 16, 23, 4, 11, 16, 23, 4, 11, 16, 23,
      6, 10, 15, 21, 6, 10, 15, 21, 6, 10, 15, 21, 6, 10, 15, 21>>

RECURSIVE Md5_rounds(_, _, _)
Md5_rounds(s, m, t) ==
    IF t > 64 \/ Len(s) # 4 THEN s
    ELSE LET i == t - 1
             b == s[2]
             c == s[3]
             d == s[4]
             f == IF i < 16 THEN W32Or(W32And(b, c), W32And(W32Not(b), d))
                  ELSE IF i < 32 THEN W32Or(W32And(d, b), W32And(W32Not(d), c))
                  ELSE IF i < 48 THEN W32Xor(W32Xor(b, c), d)
                  ELSE W32Xor(c, W32Or(b, W32Not(d)))
             g == IF i < 16 THEN i
                  ELSE IF i < 32 THEN (5 * i + 1) % 16
                  ELSE IF i < 48 THEN (3 * i + 5) % 16
                  ELSE (7 * i) % 16
             sum == W32Add(W32Add(W32Add(f, s[1]), MD5_T[t]), m[g + 1])
         IN  Md5_rounds(<<d, W32Add(b, W32Rotl(sum, MD5_S[t])), b, c>>, m, t + 1)

Md5_compress(h, block) ==
    LET m == [i \in 1..16 |-> W32FromLe(block, 4 * i - 3)]
        s == Md5_rounds(h, m, 1)
    IN  [i \in 1..4 |-> W32Add(h[i], s[i])]

\* the block buffer of the three digests: full 64-byte blocks are compressed
\* as soon as they are complete, the rest waits in the buffer
BlockCompress(alg, h, block) ==
    CASE alg = "Sha1" -> Sha1_compress(h, block)
      [] alg = "Sha256" -> Sha256_compress(h, block)
      [] alg = "Md5" -> Md5_compress(h, block)

RECURSIVE Block_update(_, _, _)
Block_update(alg, st, data) ==
    LET buf == st.buffer \o data
    IN  IF Len(buf) < 64
        THEN [h |-> st.h, buffer |-> buf, len |-> st.len + Len(data)]
        ELSE Block_update(alg,
                          [h |-> BlockCompress(alg, st.h, SubSeq(buf, 1, 64)),
                           buffer |-> <<>>,
                           len |-> st.len + (64 - Len(st.buffer))],
                          SubSeq(buf, 65, Len(buf)))

\* the padding: 0x80, zeros up to 56 mod 64, the count of bits
Block_padding(alg, st) ==
    LET n == Len(st.buffer)
    IN  <<128>> \o Zeros(IF n < 56 THEN 55 - n ELSE 119 - n)
               \o (IF alg = "Md5" THEN BitLenLe(st.len) ELSE BitLenBe(st.len))

Sha1_new == [h |-> SHA1_H0, buffer |-> <<>>, len |-> 0]
Sha1_update(st, data) == Block_update("Sha1", st, data)
Sha1_finalize(st) == WordsToBe(Block_update("Sha1", st, Block_padding("Sha1", st)).h)

Sha256_new == [h |-> SHA256_H0, buffer |-> <<>>, len |-> 0]
Sha256_update(st, data) == Block_update("Sha256", st, data)
Sha256_finalize(st) == WordsToBe(Block_update("Sha256", st, Block_padding("Sha256", st)).h)

Md5_new == [h |-> MD5_INIT, buffer |-> <<>>, len |-> 0]
Md5_update(st, data) == Block_update("Md5", st, data)
Md5_finalize(st) == WordsToLe(Block_update("Md5", st, Block_padding("Md5", st)).h)

(***************************************************************************)
(* The Checksum trait over the six algorithms, and ChecksumHasher.         *)
(***************************************************************************)
Algorithms == {"Crc32", "Crc32c", "Crc64Nvme", "Sha1", "Sha256", "Md5"}

\* Checksum::new, Checksum::update, Checksum::finalize of each implementor
Checksum_new(alg) ==
    CASE alg = "Crc32" -> Crc32_new
      [] alg = "Crc32c" -> Crc32c_new
      [] alg = "Crc64Nvme" -> Crc64Nvme_new
      [] alg = "Sha1" -> Sha1_new
      [] alg = "Sha256" -> Sha256_new
      [] alg = "Md5" -> Md5_new

Checksum_update(alg, st, data) ==
    CASE alg = "Crc32" -> Crc32_update(st, data)
      [] alg = "Crc32c" -> Crc32c_update(st, data)
      [] alg = "Crc64Nvme" -> Crc64Nvme_update(st, data)
      [] alg = "Sha1" -> Sha1_update(st, data)
      [] alg = "Sha256" -> Sha256_update(st, data)
      [] alg = "Md5" -> Md5_update(st, data)

Checksum_finalize(alg, st) ==
    CASE alg = "Crc32" -> Crc32_finalize(st)
      [] alg = "Crc32c" -> Crc32c_finalize(st)
      [] alg = "Crc64Nvme" -> Crc64Nvme_finalize(st)
      [] alg = "Sha1" -> Sha1_finalize(st)
      [] alg = "Sha256" -> Sha256_finalize(st)
      [] alg = "Md5" -> Md5_finalize(st)

\* Checksum::checksum, the provided one-shot method
Checksum_checksum(alg, data) ==
    Checksum_finalize(alg, Checksum_update(alg, Checksum_new(alg), data))

\* base64_simd::STANDARD.encode_to_string: the characters of the encoding
Base64Char(n) ==
    IF n < 26 THEN 65 + n
    ELSE IF n < 52 THEN 97 + (n - 26)
    ELSE IF n < 62 THEN 48 + (n - 52)
    ELSE IF n = 62 THEN 43
    ELSE 47

base64(input) ==
    LET n == Len(input)
        at(k) == IF k <= n THEN input[k] ELSE 0
    IN  [i \in 1..(4 * ((n + 2) \div 3)) |->
            LET g == 3 * ((i - 1) \div 4)
                j == (i - 1) % 4
            IN  CASE j = 0 -> Base64Char(at(g + 1) \div 4)
                  [] j = 1 -> Base64Char((at(g + 1) % 4) * 16 + (at(g + 2) \div 16))
                  [] j = 2 -> IF g + 2 <= n
                              THEN Base64Char((at(g + 2) % 16) * 4 + (at(g + 3) \div 64))
                              ELSE 61
                  [] j = 3 -> IF g + 3 <= n THEN Base64Char(at(g + 3) % 64) ELSE 61]

\* Option::map on the fields of a hasher
OptionMap2(F(_, _), opt, data) == IF opt.some THEN Some(F(opt.v, data)) ELSE None

\* ChecksumHasher::update where SHA-1 starts over at every call
ChecksumHasher_update_restart(h, data) ==
    [crc32 |-> OptionMap2(Crc32_update, h.crc32, data),
     crc32c |-> OptionMap2(Crc32c_update, h.crc32c, data),
     sha1 |-> IF h.sha1.some THEN Some(Sha1_update(Sha1_new, data)) ELSE None,
     sha256 |-> OptionMap2(Sha256_update, h.sha256, data),
     crc64nvme |-> OptionMap2(Crc64Nvme_update, h.crc64nvme, data)]

ChecksumHasher_update(h, data) ==
    [crc32 |-> OptionMap2(Crc32_update, h.crc32, data),
     crc32c |-> OptionMap2(Crc32c_update, h.crc32c, data),
     sha1 |-> OptionMap2(Sha1_update, h.sha1, data),
     sha256 |-> OptionMap2(Sha256_update, h.sha256, data),
     crc64nvme |-> OptionMap2(Crc64Nvme_update, h.crc64nvme, data)]

\* ChecksumHasher::finalize that leaves checksum_crc32c out
ChecksumHasher_finalize_skip_crc32c(h) ==
    LET sum(F(_), opt) == IF opt.some THEN Some(base64(F(opt.v))) ELSE None
    IN  [checksum_crc32 |-> sum(Crc32_finalize, h.crc32),
         checksum_crc32c |-> None,
         checksum_sha1 |-> sum(Sha1_finalize, h.sha1),
         checksum_sha256 |-> sum(Sha256_finalize, h.sha256),
         checksum_crc64nvme |-> sum(Crc64Nvme_finalize, h.crc64nvme)]

ChecksumHasher_finalize(h) ==
    LET sum(F(_), opt) == IF opt.some THEN Some(base64(F(opt.v))) ELSE None
    IN  [checksum_crc32 |-> sum(Crc32_finalize, h.crc32),
         checksum_crc32c |-> sum(Crc32c_finalize, h.crc32c),
         checksum_sha1 |-> sum(Sha1_finalize, h.sha1),
         checksum_sha256 |-> sum(Sha256_finalize, h.sha256),
         checksum_crc64nvme |-> sum(Crc64Nvme_finalize, h.crc64nvme)]

(***************************************************************************)
(* A program that constructs one hasher, a ChecksumHasher with some of its *)
(* algorithms active or a hasher of a single algorithm, feeds it chunks of *)
(* bytes and finalizes it.                                                 *)
(***************************************************************************)
Pattern(n) == [i \in 1..n |-> (i * 7) % 256]

\* nothing, "hel", and a chunk that "hel" completes to a 64-byte block
Chunks == {<<>>, <<104, 101, 108>>, Pattern(61)}

HasherAlgorithms == {"Crc32", "Crc32c", "Sha1", "Sha256", "Crc64Nvme"}

\* ChecksumHasher { crc32: Some(Crc32::new()), .., ..Default::default() }
ChecksumHasher_with(active) ==
    [crc32 |-> IF "Crc32" \in active THEN Some(Crc32_new) ELSE None,
     crc32c |-> IF "Crc32c" \in active THEN Some(Crc32c_new) ELSE None,
     sha1 |-> IF "Sha1" \in active THEN Some(Sha1_new) ELSE None,
     sha256 |-> IF "Sha256" \in active THEN Some(Sha256_new) ELSE None,
     crc64nvme |-> IF "Crc64Nvme" \in active THEN Some(Crc64Nvme_new) ELSE None]

ChecksumInit ==
    /\ \/ /\ hasher \in {Some(ChecksumHasher_with(active)) : active \in SUBSET HasherAlgorithms}
          /\ single = None
       \/ /\ hasher = None
          /\ single \in {Some([alg |-> a, st |-> Checksum_new(a)]) : a \in Algorithms}
    /\ fed = <<>>
    /\ checksum = None
    /\ digest = None
    /\ StreamIdle /\ CodecIdle /\ AuthIdle /\ RegionIdle /\ SecretIdle

\* hasher.update(data)
Update ==
    \E data \in Chunks :
        /\ hasher.some
        /\ checksum = None
        /\ Len(fed) < MaxUpdates
        /\ hasher' = Some(ChecksumHasher_update(hasher.v, data))
        /\ fed' = Append(fed, data)
        /\ UNCHANGED <<checksum, single, digest>>
        /\ UNCHANGED <<stream_vars, codec_vars, auth_vars, region_vars, secret_vars>>

\* hasher.finalize(): the hasher is moved into the call, `hasher` keeps the
\* value that was finalized
Finalize ==
    /\ hasher.some
    /\ checksum = None
    /\ checksum' = Some(ChecksumHasher_finalize(hasher.v))
    /\ UNCHANGED <<hasher, fed, single, digest>>
    /\ UNCHANGED <<stream_vars, codec_vars, auth_vars, region_vars, secret_vars>>

\* h.update(data) on the hasher of one algorithm
SingleUpdate ==
    \E data \in Chunks :
        /\ single.some
        /\ digest = None
        /\ Len(fed) < MaxUpdates
        /\ single' = Some([single.v EXCEPT !.st = Checksum_update(single.v.alg, @, data)])
        /\ fed' = Append(fed, data)
        /\ UNCHANGED <<hasher, checksum, digest>>
        /\ UNCHANGED <<stream_vars, codec_vars, auth_vars, region_vars, secret_vars>>

\* h.finalize() on the hasher of one algorithm
SingleFinalize ==
    /\ single.some
    /\ digest = None
    /\ digest' = Some(Checksum_finalize(single.v.alg, single.v.st))
    /\ UNCHANGED <<hasher, fed, checksum, single>>
    /\ UNCHANGED <<stream_vars, codec_vars, auth_vars, region_vars, secret_vars>>

ChecksumNext == Update \/ Finalize \/ SingleUpdate \/ SingleFinalize

SpecChecksum == ChecksumInit /\ [][ChecksumNext]_vars

(***************************************************************************)
(* Properties of the checksums, under SpecChecksum.                        *)
(***************************************************************************)
\* the field of the hasher and the field of the result record of each
\* algorithm of ChecksumHasher
HasherField(h, alg) ==
    CASE alg = "Crc32" -> h.crc32
      [] alg = "Crc32c" -> h.crc32c
      [] alg = "Sha1" -> h.sha1
      [] alg = "Sha256" -> h.sha256
      [] alg = "Crc64Nvme" -> h.crc64nvme

ResultField(c, alg) ==
    CASE alg = "Crc32" -> c.checksum_crc32
      [] alg = "Crc32c" -> c.checksum_crc32c
      [] alg = "Sha1" -> c.checksum_sha1
      [] alg = "Sha256" -> c.checksum_sha256
      [] alg = "Crc64Nvme" -> c.checksum_crc64nvme

\* C13: after any updates and finalize, a field of the result record is
\* present if and only if its algorithm was active at construction: the
\* result has exactly the fields of the hasher that was finalized, no update
\* activates or deactivates an algorithm, and a default hasher finalizes to
\* a record with every field absent.
C13_PresentIffActive ==
    /\ [](checksum.some =>
            /\ \A alg \in HasherAlgorithms :
                  ResultField(checksum.v, alg).some <=> HasherField(hasher.v, alg).some
            /\ hasher.v = ChecksumHasher_default =>
                  \A alg \in HasherAlgorithms : ResultField(checksum.v, alg) = None)
    /\ [][(hasher.some /\ hasher'.some) =>
            \A alg \in HasherAlgorithms :
                HasherField(hasher'.v, alg).some <=> HasherField(hasher.v, alg).some]_vars

C13_Witness ==
    /\ checksum.some
    /\ Len(fed) = 2
    /\ checksum.v.checksum_crc32.some
    /\ checksum.v.checksum_crc32c.some
    /\ ~checksum.v.checksum_sha1.some

\* all the bytes fed, as one slice
RECURSIVE Concat(_)
Concat(chunks) == IF chunks = <<>> THEN <<>> ELSE Head(chunks) \o Concat(Tail(chunks))

\* C14: feeding bytes in one update call and feeding the same bytes in
\* consecutive update calls, split anywhere, give the same digests: whatever
\* the chunks were, every active algorithm of a finalized ChecksumHasher has
\* the base64 of the one-shot checksum of all the bytes, and the digest of a
\* hasher of one algorithm is the one-shot checksum of all the bytes.
C14_SplitInvariance ==
    /\ checksum.some =>
          \A alg \in HasherAlgorithms :
              HasherField(hasher.v, alg).some =>
                  ResultField(checksum.v, alg) = Some(base64(Checksum_checksum(alg, Concat(fed))))
    /\ digest.some => digest.v = Checksum_checksum(single.v.alg, Concat(fed))

C14_Witness ==
    /\ checksum.some
    /\ fed = <<Pattern(61), <<104, 101, 108>>>>
    /\ \A alg \in HasherAlgorithms : ResultField(checksum.v, alg).some
    /\ checksum.v.checksum_crc32 = Some(base64(Crc32_checksum(Pattern(61) \o <<104, 101, 108>>)))

C14_WitnessSingle ==
    /\ digest.some
    /\ single.v.alg = "Md5"
    /\ fed = <<<<104, 101, 108>>, Pattern(61)>>

\* C15: the big-endian bytes of Crc32::checksum_u32(d) are the 4 bytes of
\* Crc32::checksum(d), for the bytes d fed to a Crc32 hasher, and both are
\* the CRC-32/ISO-HDLC of d, whose check value is 0xCBF43926.
C15_ChecksumU32IsChecksumBigEndian ==
    /\ u32_to_be_bytes(Crc32_checksum_u32(<<49, 50, 51, 52, 53, 54, 55, 56, 57>>))
          = <<203, 244, 57, 38>>
    /\ (single.some /\ single.v.alg = "Crc32") =>
          LET d == Concat(fed)
              n == Crc32_checksum_u32(d)
          IN  /\ Len(Crc32_checksum(d)) = 4
              /\ u32_to_be_bytes(n) = Crc32_checksum(d)
              /\ WFits(n, 32)
              /\ digest.some => digest.v = u32_to_be_bytes(n)

C15_Witness ==
    /\ single.some
    /\ single.v.alg = "Crc32"
    /\ digest.some
    /\ fed = <<<<104, 101, 108>>, <<104, 101, 108>>>>
    /\ digest.v = <<111, 13, 180, 27>>

(***************************************************************************)
(* The frame of a Continuation event and the length fields, under Spec     *)
(* and SpecCodec.                                                          *)
(***************************************************************************)
\* the chunk decodes to exactly the headers :event-type=Cont and
\* :message-type=event, and has no payload
IsContFrame(bytes) ==
    LET p == parse_message(bytes)
    IN  /\ ~p.panic
        /\ Len(p.headers) = 2
        /\ {p.headers[1], p.headers[2]} =
              {<<EVENT_TYPE, <<67, 111, 110, 116>>>>,
               <<MESSAGE_TYPE, <<101, 118, 101, 110, 116>>>>}
        /\ p.payload = None
        /\ FramePayloadBytes(bytes) = <<>>

\* C16 as stated: a Continuation event serializes to a frame with exactly
\* the headers :event-type=Cont and :message-type=event, no payload, and a
\* total length of 25 bytes.
C16_ContFrameIs25Bytes ==
    \A k \in Emitted :
        upstream[k] = Ok(ContEvent) =>
            /\ out[k].ok
            /\ IsContFrame(out[k].val)
            /\ Len(out[k].val) = 25

\* C16 amended: a Continuation event serializes to a frame with exactly the
\* headers :event-type=Cont and :message-type=event, no payload, and a total
\* length of 57 bytes: 16 bytes of framing and 41 header bytes, 19 for
\* :event-type=Cont and 22 for :message-type=event.
C16_ContFrameIs57Bytes ==
    \A k \in Emitted :
        upstream[k] = Ok(ContEvent) =>
            /\ out[k].ok
            /\ IsContFrame(out[k].val)
            /\ Len(out[k].val) = 57
            /\ u32_from_be_bytes(Slice(out[k].val, 0, 4)) = W(57)
            /\ u32_from_be_bytes(Slice(out[k].val, 4, 8)) = W(41)
            /\ 41 = (1 + 11 + 1 + 2 + 4) + (1 + 13 + 1 + 2 + 5)

C16_Witness ==
    \E k \in Emitted :
        /\ upstream[k] = Ok(ContEvent)
        /\ out[k].ok
        /\ Len(out[k].val) > 16

\* the sum over the headers of 1 + 1 + 2 + len(name) + len(value), for
\* headers whose lengths are below 2^31
RECURSIVE HeaderBytesSum(_, _)
HeaderBytesSum(hs, i) ==
    IF i > Len(hs) THEN 0
    ELSE 1 + 1 + 2 + WToInt(BytesLen(hs[i].name)) + WToInt(BytesLen(hs[i].value))
           + HeaderBytesSum(hs, i + 1)

\* C17: for every successfully serialized Message the headers_length field
\* is the sum over the headers of 1+1+2+len(name)+len(value), the
\* total_length field is headers_length + 16 + len(payload), with length 0
\* for no payload, and the payload is exactly the
\* total_length - headers_length - 16 bytes that follow the headers region.
C17_LengthFields ==
    Serialized =>
        LET data == result.v.val
            total_length == WToInt(u32_from_be_bytes(Slice(data, 0, 4)))
            headers_length == WToInt(u32_from_be_bytes(Slice(data, 4, 8)))
            payload == IF msg.payload.some THEN BytesData(msg.payload.v) ELSE <<>>
        IN  /\ headers_length = HeaderBytesSum(msg.headers, 1)
            /\ total_length = headers_length + 16 + Len(payload)
            /\ Slice(data, 12 + headers_length,
                     12 + headers_length + (total_length - headers_length - 16)) = payload
            /\ 12 + headers_length + (total_length - headers_length - 16) = Len(data) - 4

C17_Witness ==
    /\ Serialized
    /\ Len(msg.headers) = 2
    /\ msg.headers[1] = Header(B(<<58, 97>>), B(<<118>>))
    /\ msg.headers[2] = Header(Filled(97, W(255)), B(<<>>))
    /\ msg.payload = Some(B(<<7, 0>>))
    /\ u32_from_be_bytes(Slice(result.v.val, 4, 8)) = W(7 + 259)
    /\ u32_from_be_bytes(Slice(result.v.val, 0, 4)) = W(7 + 259 + 16 + 2)

(***************************************************************************)
(* SecretKey and SimpleAuth (auth/secret_key.rs, auth/simple_auth.rs).     *)
(* Strings are their UTF-8 bytes; the HashMap is a function on the keys    *)
(* it holds.                                                               *)
(***************************************************************************)
\* SecretKey::from (SecretKey::new), expose, clone
SecretKey_from(value) == [inner |-> value]
SecretKey_expose(key) == key.inner
SecretKey_clone(key) == [inner |-> key.inner]

\* HashMap::insert: the map with the pair, and the value the key had
HashMap_insert(map, k, v) ==
    [map |-> [x \in DOMAIN map \cup {k} |-> IF x = k THEN v ELSE map[x]],
     ret |-> IF k \in DOMAIN map THEN Some(map[k]) ELSE None]

\* HashMap::get
HashMap_get(map, k) == IF k \in DOMAIN map THEN Some(map[k]) ELSE None

\* SimpleAuth::from_single
SimpleAuth_from_single(access_key, secret_key) ==
    [map |-> HashMap_insert(SimpleAuth_new.map, access_key, SecretKey_from(secret_key)).map]

\* SimpleAuth::register that keeps the secret a key already has
SimpleAuth_register_keep_old(a, access_key, secret_key) ==
    IF access_key \in DOMAIN a.map
    THEN [auth |-> a, ret |-> Some(a.map[access_key])]
    ELSE [auth |-> [map |-> HashMap_insert(a.map, access_key, secret_key).map], ret |-> None]

\* SimpleAuth::register: the SimpleAuth after the call, and what it returns
SimpleAuth_register(a, access_key, secret_key) ==
    LET ins == HashMap_insert(a.map, access_key, secret_key)
    IN  [auth |-> [map |-> ins.map], ret |-> ins.ret]

\* SimpleAuth::lookup
SimpleAuth_lookup(a, access_key) == HashMap_get(a.map, access_key)

\* s3_error!(NotSignedUp, "Your account is not signed up")
STR_NotSignedUp == <<78, 111, 116, 83, 105, 103, 110, 101, 100, 85, 112>>
NotSignedUpError == S3Error(KnownCode(STR_NotSignedUp), Some(B(<<89, 111, 117, 114, 32, 97, 99, 99, 111, 117, 110, 116, 32, 105, 115, 32, 110, 111, 116, 32, 115, 105, 103, 110, 101, 100, 32, 117, 112>>)))

\* <SimpleAuth as S3Auth>::get_secret_key
get_secret_key(a, access_key) ==
    LET found == SimpleAuth_lookup(a, access_key)
    IN  IF found.some THEN Ok(SecretKey_clone(found.v)) ELSE Err(NotSignedUpError)

\* "key1", "AKID"; "UNKNOWN" is looked up but never registered
AccessKeys == {<<107, 101, 121, 49>>, <<65, 75, 73, 68>>}
LookupKeys == AccessKeys \cup {<<85, 78, 75, 78, 79, 87, 78>>}
\* "old", "new"
Secrets == {<<111, 108, 100>>, <<110, 101, 119>>}

AuthInit ==
    /\ \/ auth = SimpleAuth_new /\ calls = <<>>
       \/ \E k \in AccessKeys, s \in Secrets :
             auth = SimpleAuth_from_single(k, s) /\ calls = <<<<k, s>>>>
    /\ auth_ret = None
    /\ StreamIdle /\ CodecIdle /\ HashIdle /\ RegionIdle /\ SecretIdle

\* auth.register(k, SecretKey::from(s))
Register ==
    \E k \in AccessKeys, s \in Secrets :
        /\ Len(calls) < MaxRegister
        /\ auth' = SimpleAuth_register(auth, k, SecretKey_from(s)).auth
        /\ calls' = Append(calls, <<k, s>>)
        /\ auth_ret' = Some([op |-> "register", key |-> k,
                             ret |-> SimpleAuth_register(auth, k, SecretKey_from(s)).ret])
        /\ UNCHANGED <<stream_vars, codec_vars, hash_vars, region_vars, secret_vars>>

\* auth.lookup(k)
Lookup ==
    \E k \in LookupKeys :
        /\ auth_ret' = Some([op |-> "lookup", key |-> k, ret |-> SimpleAuth_lookup(auth, k)])
        /\ UNCHANGED <<auth, calls>>
        /\ UNCHANGED <<stream_vars, codec_vars, hash_vars, region_vars, secret_vars>>

\* auth.get_secret_key(k).await
GetSecretKey ==
    \E k \in LookupKeys :
        /\ auth_ret' = Some([op |-> "get_secret_key", key |-> k, ret |-> get_secret_key(auth, k)])
        /\ UNCHANGED <<auth, calls>>
        /\ UNCHANGED <<stream_vars, codec_vars, hash_vars, region_vars, secret_vars>>

AuthNext == Register \/ Lookup \/ GetSecretKey

SpecAuth == AuthInit /\ [][AuthNext]_vars

(***************************************************************************)
(* Properties of SimpleAuth, under SpecAuth.                               *)
(***************************************************************************)
\* the secret of the last pair given for k to from_single or register
LastRegistered(cs, k) ==
    LET at == {i \in 1..Len(cs) : cs[i][1] = k}
    IN  IF at = {} THEN None
        ELSE Some(cs[CHOOSE i \in at : \A j \in at : j <= i][2])

\* C18: lookup(k) returns the secret most recently given for k to register
\* or from_single, and None for a key never registered; register(k, s)
\* returns the secret k had before, None if it had none, and leaves the
\* secret of every other key as it was; get_secret_key(k) returns Ok with
\* the secret when lookup(k) is Some and a NotSignedUp error when it is None.
C18_LookupReturnsLastRegistered ==
    /\ [](/\ \A k \in LookupKeys :
                LET last == LastRegistered(calls, k)
                    found == SimpleAuth_lookup(auth, k)
                    got == get_secret_key(auth, k)
                IN  /\ found.some = last.some
                    /\ last.some => SecretKey_expose(found.v) = last.v
                    /\ found.some => got.ok /\ SecretKey_expose(got.val) = last.v
                    /\ ~found.some =>
                          ~got.ok /\ got.err.code = KnownCode(<<78, 111, 116, 83, 105, 103, 110, 101, 100, 85, 112>>)
          /\ (auth_ret.some /\ auth_ret.v.op = "lookup") =>
                auth_ret.v.ret = SimpleAuth_lookup(auth, auth_ret.v.key)
          /\ (auth_ret.some /\ auth_ret.v.op = "get_secret_key") =>
                auth_ret.v.ret = get_secret_key(auth, auth_ret.v.key))
    /\ [][calls' # calls =>
            LET k == calls'[Len(calls')][1]
                before == LastRegistered(calls, k)
            IN  /\ auth_ret'.v.op = "register"
                /\ auth_ret'.v.ret.some = before.some
                /\ before.some => SecretKey_expose(auth_ret'.v.ret.v) = before.v
                /\ \A j \in LookupKeys \ {k} :
                      SimpleAuth_lookup(auth', j) = SimpleAuth_lookup(auth, j)]_vars

C18_Witness ==
    /\ calls = <<<<<<107, 101, 121, 49>>, <<111, 108, 100>>>>, <<<<107, 101, 121, 49>>, <<110, 101, 119>>>>>>
    /\ auth_ret.some
    /\ auth_ret.v.op = "get_secret_key"
    /\ auth_ret.v.key = <<107, 101, 121, 49>>
    /\ auth_ret.v.ret.ok
    /\ SecretKey_expose(auth_ret.v.ret.val) = <<110, 101, 119>>

(***************************************************************************)
(* Region (region.rs).  A str is its UTF-8 bytes.                          *)
(***************************************************************************)
is_ascii_lowercase(b) == 97 <= b /\ b <= 122
is_ascii_digit(b) == 48 <= b /\ b <= 57

\* Region::is_valid that does not look at the length
Region_is_valid_allow_empty(s) ==
    \A i \in 1..Len(s) : is_ascii_lowercase(s[i]) \/ is_ascii_digit(s[i]) \/ s[i] = 45

\* Region::is_valid
Region_is_valid(s) ==
    /\ ~(Len(s) = 0)
    /\ \A i \in 1..Len(s) : is_ascii_lowercase(s[i]) \/ is_ascii_digit(s[i]) \/ s[i] = 45

InvalidRegion(s) == [invalid_region |-> s]

\* Region::new
Region_new(s) == IF Region_is_valid(s) THEN Ok([inner |-> s]) ELSE Err(InvalidRegion(s))

\* <Region as FromStr>::from_str: s.into() copies the str into a Box<str>
str_into_boxed(s) == [i \in 1..Len(s) |-> s[i]]
Region_from_str(s) == Region_new(str_into_boxed(s))

\* Region::as_str, Region::into_boxed_str, <Region as Display>::fmt
Region_as_str(r) == r.inner
Region_into_boxed_str(r) == r.inner
Region_fmt(r, f) == f \o r.inner

\* the characters region strings are made of: a z 0 9 -, the characters next
\* to these ranges (` { / : , .), A, _, a space, and e with an acute accent
RegionChars ==
    {<<97>>, <<122>>, <<48>>, <<57>>, <<45>>, <<96>>, <<123>>, <<47>>, <<58>>, <<44>>, <<46>>,
     <<65>>, <<95>>, <<32>>, <<195, 169>>}

RECURSIVE StrsOfChars(_)
StrsOfChars(n) ==
    IF n = 0 THEN {<<>>}
    ELSE StrsOfChars(n - 1) \cup {s \o c : s \in StrsOfChars(n - 1), c \in RegionChars}

\* "us-east-1", "US-EAST-1", "a-b-c-0"
RegionStrs == StrsOfChars(MaxRegionChars) \cup {<<117, 115, 45, 101, 97, 115, 116, 45, 49>>, <<85, 83, 45, 69, 65, 83, 84, 45, 49>>, <<97, 45, 98, 45, 99, 45, 48>>}

RegionInit ==
    /\ region_s \in RegionStrs
    /\ region = None
    /\ region_ret = None
    /\ StreamIdle /\ CodecIdle /\ HashIdle /\ AuthIdle /\ SecretIdle

\* Region::new(s.into())
New ==
    /\ region = None
    /\ region' = Some(Region_new(region_s))
    /\ UNCHANGED <<region_s, region_ret>>
    /\ UNCHANGED <<stream_vars, codec_vars, hash_vars, auth_vars, secret_vars>>

\* s.parse::<Region>()
FromStr ==
    /\ region = None
    /\ region' = Some(Region_from_str(region_s))
    /\ UNCHANGED <<region_s, region_ret>>
    /\ UNCHANGED <<stream_vars, codec_vars, hash_vars, auth_vars, secret_vars>>

\* r.as_str()
AsStr ==
    /\ region.some /\ region.v.ok
    /\ region_ret' = Some([op |-> "as_str", ret |-> Region_as_str(region.v.val)])
    /\ UNCHANGED <<region_s, region>>
    /\ UNCHANGED <<stream_vars, codec_vars, hash_vars, auth_vars, secret_vars>>

\* format!("{r}")
Display ==
    /\ region.some /\ region.v.ok
    /\ region_ret' = Some([op |-> "fmt", ret |-> Region_fmt(region.v.val, <<>>)])
    /\ UNCHANGED <<region_s, region>>
    /\ UNCHANGED <<stream_vars, codec_vars, hash_vars, auth_vars, secret_vars>>

\* r.into_boxed_str()
IntoBoxedStr ==
    /\ region.some /\ region.v.ok
    /\ region_ret' = Some([op |-> "into_boxed_str", ret |-> Region_into_boxed_str(region.v.val)])
    /\ UNCHANGED <<region_s, region>>
    /\ UNCHANGED <<stream_vars, codec_vars, hash_vars, auth_vars, secret_vars>>

RegionNext == New \/ FromStr \/ AsStr \/ Display \/ IntoBoxedStr

SpecRegion == RegionInit /\ [][RegionNext]_vars

(***************************************************************************)
(* Properties of Region, under SpecRegion.                                 *)
(***************************************************************************)
\* s matches [a-z0-9-]+
MatchesRegionPattern(s) ==
    /\ Len(s) >= 1
    /\ \A i \in 1..Len(s) : s[i] \in (97..122) \cup (48..57) \cup {45}

\* C19: Region::new(s), and parsing s, succeeds if and only if s is not empty
\* and every byte of it is a lowercase ASCII letter, an ASCII digit or a
\* hyphen; on success as_str(), Display and into_boxed_str() give s
\* unchanged, on failure the result is InvalidRegion carrying s; so every
\* Region that exists matches [a-z0-9-]+.
C19_RegionValidation ==
    /\ Region_new(region_s) = Region_from_str(region_s)
    /\ region.some =>
          /\ region.v.ok <=> MatchesRegionPattern(region_s)
          /\ region.v.ok =>
                /\ Region_as_str(region.v.val) = region_s
                /\ Region_fmt(region.v.val, <<>>) = region_s
                /\ Region_into_boxed_str(region.v.val) = region_s
                /\ MatchesRegionPattern(Region_as_str(region.v.val))
          /\ ~region.v.ok => region.v.err = InvalidRegion(region_s)
          /\ region_ret.some => region_ret.v.ret = region_s

C19_Witness ==
    /\ region_s = <<117, 115, 45, 101, 97, 115, 116, 45, 49>>
    /\ region.some
    /\ region.v.ok
    /\ region_ret.some
    /\ region_ret.v.op = "fmt"

C19_WitnessInvalid ==
    /\ region_s = <<85, 83, 45, 69, 65, 83, 84, 45, 49>>
    /\ region.some
    /\ ~region.v.ok

(***************************************************************************)
(* SecretKey and Credentials: formatting, serialization, comparison        *)
(* (auth/secret_key.rs).  Formatted output is a string of bytes.           *)
(***************************************************************************)
\* "[SENSITIVE-SECRET-KEY]"
PLACEHOLDER == <<91, 83, 69, 78, 83, 73, 84, 73, 86, 69, 45, 83, 69, 67, 82, 69, 84, 45, 75, 69, 89, 93>>

\* <str as Debug>::fmt, for strings of ASCII: the string in double quotes,
\* with the quote, the backslash, and tab, line feed and carriage return
\* escaped
escape_debug(b) ==
    CASE b = 34 -> <<92, 34>>
      [] b = 92 -> <<92, 92>>
      [] b = 9 -> <<92, 116>>
      [] b = 10 -> <<92, 110>>
      [] b = 13 -> <<92, 114>>
      [] OTHER -> <<b>>

RECURSIVE escape_debug_str(_, _)
escape_debug_str(s, i) ==
    IF i > Len(s) THEN <<>> ELSE escape_debug(s[i]) \o escape_debug_str(s, i + 1)

str_fmt_debug(s) == <<34>> \o escape_debug_str(s, 1) \o <<34>>

\* PadAdapter of the pretty ({:#?}) form: four spaces at the start of each line
RECURSIVE PadAdapter(_, _, _)
PadAdapter(s, i, on_newline) ==
    IF i > Len(s) THEN <<>>
    ELSE (IF on_newline THEN <<32, 32, 32, 32>> ELSE <<>>) \o <<s[i]>>
         \o PadAdapter(s, i + 1, s[i] = 10)

\* f.debug_tuple(name).field(&value).finish(), value already formatted
DebugTuple(name, value, alternate) ==
    IF alternate
    THEN name \o <<40, 10>> \o PadAdapter(value \o <<44, 10>>, 1, TRUE) \o <<41>>
    ELSE name \o <<40>> \o value \o <<41>>

\* f.debug_struct(name).field(n1, &v1).field(n2, &v2).finish()
DebugStruct2(name, n1, v1, n2, v2, alternate) ==
    IF alternate
    THEN name \o <<32, 123, 10>>
         \o PadAdapter(n1 \o <<58, 32>> \o v1 \o <<44, 10>>, 1, TRUE)
         \o PadAdapter(n2 \o <<58, 32>> \o v2 \o <<44, 10>>, 1, TRUE)
         \o <<125>>
    ELSE name \o <<32, 123, 32>> \o n1 \o <<58, 32>> \o v1 \o <<44, 32>>
         \o n2 \o <<58, 32>> \o v2 \o <<32, 125>>

\* a Debug impl for SecretKey that formats the inner string, as a derive would
SecretKey_fmt_derived(key, alternate) ==
    DebugTuple(<<83, 101, 99, 114, 101, 116, 75, 101, 121>>, str_fmt_debug(key.inner), alternate)

\* <SecretKey as Debug>::fmt
SecretKey_fmt(key, alternate) ==
    DebugTuple(<<83, 101, 99, 114, 101, 116, 75, 101, 121>>, str_fmt_debug(PLACEHOLDER), alternate)

\* #[derive(Debug)] Credentials
Credentials_fmt(c, alternate) ==
    DebugStruct2(<<67, 114, 101, 100, 101, 110, 116, 105, 97, 108, 115>>,
                 <<97, 99, 99, 101, 115, 115, 95, 107, 101, 121>>, str_fmt_debug(c.access_key),
                 <<115, 101, 99, 114, 101, 116, 95, 107, 101, 121>>, SecretKey_fmt(c.secret_key, alternate),
                 alternate)

\* Serializer::serialize_str of serde_json, for strings of printable ASCII:
\* the string in double quotes, the quote and the backslash escaped
RECURSIVE json_escape(_, _)
json_escape(s, i) ==
    IF i > Len(s) THEN <<>>
    ELSE (IF s[i] \in {34, 92} THEN <<92, s[i]>> ELSE <<s[i]>>) \o json_escape(s, i + 1)

serde_json_serialize_str(s) == <<34>> \o json_escape(s, 1) \o <<34>>

\* <SecretKey as Serialize>::serialize, with the serializer of serde_json
SecretKey_serialize(key) == serde_json_serialize_str(PLACEHOLDER)

\* subtle: <u8 as ConstantTimeEq>::ct_eq, as a u8 that is 0 or 1
u8_ct_eq(a, b) ==
    LET x == Xor8[a][b]
        neg == (256 - x) % 256
        y == ((x + neg) - And8[x][neg]) \div 128
    IN  Xor8[y][1]

\* subtle: <[u8] as ConstantTimeEq>::ct_eq
RECURSIVE slice_ct_eq_fold(_, _, _, _)
slice_ct_eq_fold(a, b, i, x) ==
    IF i > Len(a) THEN x
    ELSE slice_ct_eq_fold(a, b, i + 1, And8[x][u8_ct_eq(a[i], b[i])])

slice_ct_eq(a, b) == IF Len(a) # Len(b) THEN 0 ELSE slice_ct_eq_fold(a, b, 1, 1)

\* <SecretKey as ConstantTimeEq>::ct_eq
SecretKey_ct_eq(key, other) == slice_ct_eq(key.inner, other.inner)

Credentials(access_key, secret_key) == [access_key |-> access_key, secret_key |-> secret_key]

\* "", "hunter2", "hunter3", "my-secret", "a\"b\\", and the placeholder itself
SecretValues == {<<>>, <<104, 117, 110, 116, 101, 114, 50>>, <<104, 117, 110, 116, 101, 114, 51>>, <<109, 121, 45, 115, 101, 99, 114, 101, 116>>, <<97, 34, 98, 92>>, PLACEHOLDER}
\* "AKID", "A\"K"
CredentialKeys == {<<65, 75, 73, 68>>, <<65, 34, 75>>}

AllCredentials ==
    {Credentials(k, SecretKey_from(v)) : k \in CredentialKeys, v \in SecretValues}

SecretInit ==
    /\ creds \in {<<c1, c2>> : c1 \in AllCredentials, c2 \in AllCredentials}
    /\ secret_ret = None
    /\ StreamIdle /\ CodecIdle /\ HashIdle /\ AuthIdle /\ RegionIdle

\* format!("{key:?}") and format!("{key:#?}"), of both
DebugSecretKey ==
    \E alternate \in BOOLEAN :
        /\ secret_ret' = Some([op |-> IF alternate THEN "SecretKey {:#?}" ELSE "SecretKey {:?}",
                               a |-> SecretKey_fmt(creds[1].secret_key, alternate),
                               b |-> SecretKey_fmt(creds[2].secret_key, alternate)])
        /\ UNCHANGED creds
        /\ UNCHANGED <<stream_vars, codec_vars, hash_vars, auth_vars, region_vars>>

\* format!("{creds:?}") and format!("{creds:#?}"), of both
DebugCredentials ==
    \E alternate \in BOOLEAN :
        /\ secret_ret' = Some([op |-> IF alternate THEN "Credentials {:#?}"
                                      ELSE "Credentials {:?}",
                               a |-> Credentials_fmt(creds[1], alternate),
                               b |-> Credentials_fmt(creds[2], alternate)])
        /\ UNCHANGED creds
        /\ UNCHANGED <<stream_vars, codec_vars, hash_vars, auth_vars, region_vars>>

\* serde_json::to_string(&key), of both
SerializeSecretKey ==
    /\ secret_ret' = Some([op |-> "serialize",
                           a |-> SecretKey_serialize(creds[1].secret_key),
                           b |-> SecretKey_serialize(creds[2].secret_key)])
    /\ UNCHANGED creds
    /\ UNCHANGED <<stream_vars, codec_vars, hash_vars, auth_vars, region_vars>>

\* key.expose(), of both
Expose ==
    /\ secret_ret' = Some([op |-> "expose",
                           a |-> SecretKey_expose(creds[1].secret_key),
                           b |-> SecretKey_expose(creds[2].secret_key)])
    /\ UNCHANGED creds
    /\ UNCHANGED <<stream_vars, codec_vars, hash_vars, auth_vars, region_vars>>

\* a.ct_eq(&b), and b.ct_eq(&a)
CtEq ==
    /\ secret_ret' = Some([op |-> "ct_eq",
                           a |-> SecretKey_ct_eq(creds[1].secret_key, creds[2].secret_key),
                           b |-> SecretKey_ct_eq(creds[2].secret_key, creds[1].secret_key)])
    /\ UNCHANGED creds
    /\ UNCHANGED <<stream_vars, codec_vars, hash_vars, auth_vars, region_vars>>

SecretNext == DebugSecretKey \/ DebugCredentials \/ SerializeSecretKey \/ Expose \/ CtEq

SpecSecret == SecretInit /\ [][SecretNext]_vars

(***************************************************************************)
(* Properties of SecretKey and Credentials, under SpecSecret.              *)
(***************************************************************************)
Contains(hay, needle) ==
    \E i \in 0..(Len(hay) - Len(needle)) : SubSeq(hay, i + 1, i + Len(needle)) = needle

\* SecretKey("[SENSITIVE-SECRET-KEY]") and its pretty form
SecretKeyDebugText ==
    <<83, 101, 99, 114, 101, 116, 75, 101, 121, 40, 34, 91, 83, 69, 78, 83,
      73, 84, 73, 86, 69, 45, 83, 69, 67, 82, 69, 84, 45, 75, 69, 89, 93, 34,
      41>>
SecretKeyPrettyText ==
    <<83, 101, 99, 114, 101, 116, 75, 101, 121, 40, 10, 32, 32, 32, 32, 34,
      91, 83, 69, 78, 83, 73, 84, 73, 86, 69, 45, 83, 69, 67, 82, 69, 84, 45,
      75, 69, 89, 93, 34, 44, 10, 41>>
\* "[SENSITIVE-SECRET-KEY]" in double quotes
SecretKeyJsonText ==
    <<34, 91, 83, 69, 78, 83, 73, 84, 73, 86, 69, 45, 83, 69, 67, 82, 69, 84,
      45, 75, 69, 89, 93, 34>>
\* Credentials { access_key: .., secret_key: SecretKey("[SENSITIVE-SECRET-KEY]") }
\* around the access key
CredentialsDebugBefore ==
    <<67, 114, 101, 100, 101, 110, 116, 105, 97, 108, 115, 32, 123, 32, 97,
      99, 99, 101, 115, 115, 95, 107, 101, 121, 58, 32>>
CredentialsDebugAfter ==
    <<44, 32, 115, 101, 99, 114, 101, 116, 95, 107, 101, 121, 58, 32, 83,
      101, 99, 114, 101, 116, 75, 101, 121, 40, 34, 91, 83, 69, 78, 83, 73,
      84, 73, 86, 69, 45, 83, 69, 67, 82, 69, 84, 45, 75, 69, 89, 93, 34, 41,
      32, 125>>

\* C20: the Debug and Serialize output of a SecretKey, and the Debug output
\* of Credentials apart from the access key, are the same for any two
\* secrets and hold the placeholder [SENSITIVE-SECRET-KEY]; expose() returns
\* the secret; ct_eq is true exactly when the secrets are equal byte by byte.
C20_SecretNeverFormatted ==
    secret_ret.some =>
        LET r == secret_ret.v
            s1 == creds[1].secret_key.inner
            s2 == creds[2].secret_key.inner
        IN  /\ r.op = "SecretKey {:?}" => r.a = SecretKeyDebugText /\ r.b = r.a
            /\ r.op = "SecretKey {:#?}" => r.a = SecretKeyPrettyText /\ r.b = r.a
            /\ r.op = "serialize" => r.a = SecretKeyJsonText /\ r.b = r.a
            /\ r.op = "Credentials {:?}" =>
                  /\ r.a = CredentialsDebugBefore \o str_fmt_debug(creds[1].access_key)
                              \o CredentialsDebugAfter
                  /\ r.b = CredentialsDebugBefore \o str_fmt_debug(creds[2].access_key)
                              \o CredentialsDebugAfter
            /\ r.op = "Credentials {:#?}" =>
                  (creds[1].access_key = creds[2].access_key => r.a = r.b)
            /\ r.op \notin {"expose", "ct_eq"} =>
                  /\ Contains(r.a, PLACEHOLDER) /\ Contains(r.b, PLACEHOLDER)
                  /\ ~Contains(SecretKeyDebugText, s1) => ~Contains(r.a, s1)
            /\ r.op = "expose" => r.a = s1 /\ r.b = s2
            /\ r.op = "ct_eq" =>
                  /\ r.a \in {0, 1}
                  /\ r.a = 1 <=> (Len(s1) = Len(s2) /\ \A i \in 1..Len(s1) : s1[i] = s2[i])
                  /\ r.b = r.a

C20_Witness ==
    /\ secret_ret.some
    /\ secret_ret.v.op = "Credentials {:?}"
    /\ creds[1].access_key = creds[2].access_key
    /\ creds[1].secret_key.inner = <<104, 117, 110, 116, 101, 114, 50>>
    /\ creds[2].secret_key.inner = <<109, 121, 45, 115, 101, 99, 114, 101, 116>>
    /\ secret_ret.v.a = secret_ret.v.b

C20_WitnessCtEq ==
    /\ secret_ret.some
    /\ secret_ret.v.op = "ct_eq"
    /\ creds[1].secret_key.inner = <<104, 117, 110, 116, 101, 114, 50>>
    /\ creds[2].secret_key.inner = <<104, 117, 110, 116, 101, 114, 51>>
    /\ secret_ret.v.a = 0

(***************************************************************************)
(* The limits of Message::serialize, under SpecCodec.                      *)
(***************************************************************************)
\* the offset, counted from 0, of the i-th header in a serialized frame
HeaderStart(hs, i) == 12 + (HeaderBytesSum(hs, 1) - HeaderBytesSum(hs, i))

\* C21: serialize succeeds if and only if every header name is at most 255
\* bytes, every header value is at most 65535 bytes and the total frame
\* length fits in 32 bits; when it succeeds the total_length and
\* headers_length fields and every header's name_len and value_len hold the
\* true lengths, and every header's value-type byte is 7.
C21_SerializeSucceedsIffLengthsFit ==
    result.some =>
        /\ (result.v.ok <=> (~HasOversizedHeader /\ WFits(TotalByteCount, 32)))
        /\ result.v.ok =>
              LET data == result.v.val
              IN  /\ u32_from_be_bytes(Slice(data, 0, 4)) = TotalByteCount
                  /\ TotalByteCount = W(Len(data))
                  /\ u32_from_be_bytes(Slice(data, 4, 8)) = HeadersByteCount(msg.headers, 1)
                  /\ \A i \in 1..Len(msg.headers) :
                        LET off == HeaderStart(msg.headers, i)
                            name == BytesData(msg.headers[i].name)
                            value == BytesData(msg.headers[i].value)
                        IN  /\ data[off + 1] = Len(name)
                            /\ Slice(data, off + 1, off + 1 + Len(name)) = name
                            /\ data[off + 1 + Len(name) + 1] = 7
                            /\ u16_from_be_bytes(Slice(data, off + 2 + Len(name),
                                                        off + 4 + Len(name))) = Len(value)
                            /\ Slice(data, off + 4 + Len(name),
                                     off + 4 + Len(name) + Len(value)) = value

\* the largest header is serialized with name_len 255 and value_len 65535
C21_Witness ==
    /\ Serialized
    /\ msg \in BoundaryMessages
    /\ result.v.val[13] = 255
    /\ Slice(result.v.val, 12 + 1 + 255, 12 + 1 + 255 + 3) = <<7, 255, 255>>
    /\ Len(result.v.val) = 16 + 4 + 255 + 65535

(***************************************************************************)
(* Errors too long for an error frame, under Spec.                         *)
(***************************************************************************)
\* the code text or the message of e is longer than 65535 bytes
ErrorIsOversized(e) ==
    ~WFits(ErrorCodeLen(e), 16) \/ ~WFits(ErrorMessageLen(e), 16)

PayloadIsEmptyOrAbsent == ~msg.payload.some \/ BytesLen(msg.payload.v) = W(0)

\* msg with the other of the two payloads, None for Some(empty) and
\* Some(empty) for None
PayloadTwin == Message(msg.headers, IF msg.payload.some THEN None ELSE Some(B(<<>>)))

\* C23: for every header list, Message{payload: Some(empty)} and
\* Message{payload: None} serialize to the same result, byte for byte, and
\* parse_message decodes the frame of either to a message without payload.
C23_EmptyPayloadIsAbsentOnTheWire ==
    (result.some /\ PayloadIsEmptyOrAbsent) =>
        /\ PayloadTwin.payload # msg.payload
        /\ result.v = serialize(PayloadTwin)
        /\ result.v.ok =>
              LET data == result.v.val
                  headers_length == WToInt(u32_from_be_bytes(Slice(data, 4, 8)))
              IN  /\ Len(data) = 12 + headers_length + 4
                  /\ FramePayloadBytes(data) = <<>>
        /\ parsed.some =>
              /\ parsed.v = parse_message(serialize(PayloadTwin).val)
              /\ ~parsed.v.panic => parsed.v.payload = None

C23_Witness ==
    /\ msg.payload = Some(B(<<>>))
    /\ Len(msg.headers) = 2
    /\ Serialized
    /\ result.v = serialize(Message(msg.headers, None))
    /\ parsed.some
    /\ ~parsed.v.panic
    /\ Len(parsed.v.headers) = 2
    /\ parsed.v.payload = None

====
